---- MODULE Spec2Model ----
(***************************************************************************)
(* A model of the MCP gateway of awesome-mcp-proxy: the backends of        *)
(* package gateway (HTTP and stdio transports, health flag), the backend   *)
(* registry, capability discovery with its routing table, and the          *)
(* client-facing handlers of package server.                               *)
(***************************************************************************)
EXTENDS Integers, Sequences, FiniteSets, TLC

VARIABLES
    cfg,        \* the configured backends: a sequence of [name, transport, group]
    healthy,    \* healthy[i]: the healthy field of the backend built from cfg[i]
    proc,       \* proc[i]: the child process of a stdio backend (cmd, stdin, stdout)
    reqID,      \* reqID[i]: the reqID field of a stdio backend
    panicked,   \* the process died of a nil dereference
    last,       \* history: the most recent Initialize/SendRequest and what it did
    tfail,      \* history: tfail[i], a transport failure since the last success
    cpc,        \* cpc[c]: where caller c is in its call on the backend
    cop,        \* cop[c]: the call caller c makes, Initialize or SendRequest
    cid,        \* cid[c]: the id caller c put in its request
    cres,       \* cres[c]: what the last call of caller c returned
    cdone,      \* cdone[c]: the context of caller c's call is cancelled or past its deadline
    stdinQ,     \* the requests written to the child's stdin and not yet read by it
    stdoutQ,    \* the responses the child wrote to its stdout, not yet read
    remote,     \* remote[i]: what the server behind cfg[i] advertises and lists
    gw,         \* what NewGateway returned: "none" before it ran, "gateway", "error"
    registry,   \* BackendManager.backends: backend name -> index of its backend
    routingTable, \* RoutingTable: ToolsMap, ResourcesMap, PromptsMap (key -> name)
    capabilities, \* Gateway.capabilities
    server,     \* Gateway.server: whether it is created, the tools registered on it
    dpc,        \* where Gateway.Initialize is: idle, initialize, a capability, return
    dsnap,      \* DiscoverCapabilities: the backends slice it iterates
    di,         \* DiscoverCapabilities: index of the current backend in dsnap
    dcaps,      \* DiscoverCapabilities: its local capabilities
    dinit,      \* DiscoverCapabilities: initResp.Capabilities of the current backend
    runs,       \* number of Gateway.Initialize calls started
    inited,     \* history: backends whose Initialize succeeded in the current run
    initfailed, \* history: backends whose Initialize failed in the current run
    listed,     \* history: listed[i][c], the keys backend i listed in this run
    listfailed, \* history: the <<i, c>> whose listing returned an error in this run
    logged,     \* the lines discoverTools/Resources/Prompts logged in this run
    srvBackends, \* package server, Gateway.backends: keys "group/name" connected
    srvToolsMap, \* package server, Gateway.toolsMap: tool name -> BackendRef
    srvResp,    \* package server: the answer to the last client request
    srvRoutes,  \* package server: resourcesMap and promptsMap
    srvCalls,   \* package server: number of CallTool requests sent to backends
    srvReady,   \* package server: Initialize has returned and the endpoint is served
    srvCache,   \* package server, Gateway.cache: the stored answer of each list method
    meta,       \* history: the last meta-tool invocation since Initialize, what it sent and returned
    closing,    \* history: the Gateway.Close invocations and what the last one did
    validated,  \* history: the last tool name checked, by which function, and what it returned
    conf,       \* package config: the configuration read from the file
    valid,      \* package config: what validateConfig returned for conf ("none": not called)
    gstack,     \* gstack[g]: the lock steps goroutine g still has to take in its call
    mu,         \* mu[m]: the sync.RWMutex of the BackendManager (0) and of backend m
    gateways,   \* package server, MCPServer.config.Gateways: a sequence of [name, prefix]
    lookup,     \* history: the last FindGatewayForTool call and what it returned
    session,    \* session[k]: session.initialized of the client of gateway k
    rmu,        \* rmu[k]: the caller holding the mutex of the client of gateway k
    rpc,        \* rpc[c]: where caller c is in ListTools/CallTool
    rop,        \* rop[c]: the call caller c makes and the gateway it is on
    rres,       \* rres[c]: what the last call of caller c returned
    wire        \* history: the requests the clients sent, in order

bvars == <<cfg, healthy, proc, reqID, panicked>>
hvars == <<last, tfail>>
cvars == <<cpc, cop, cid, cres, cdone, stdinQ, stdoutQ>>
gvars == <<remote, gw, registry, routingTable, capabilities, server>>
dvars == <<dpc, dsnap, di, dcaps, dinit, runs, inited, initfailed, listed, listfailed, logged>>
svars == <<srvBackends, srvToolsMap, srvResp, srvCalls, srvReady, srvCache, srvRoutes>>
mvars == <<meta, closing, validated>>
kvars == <<conf, valid>>
rvars == <<gateways, lookup, session, rmu, rpc, rop, rres, wire>>
vars == <<bvars, hvars, cvars, gvars, dvars, svars, mvars, kvars, gstack, mu, rvars>>

NIL == "nil"

\* ------------------------------------------------------------------------
\* What a remote can answer to one request.

\* Outcomes of exec: StdinPipe/StdoutPipe fail, Start fails, or the child runs.
StartOutcomes == {"ok", "pipe_fail", "start_fail"}

\* Outcomes of one HTTP exchange, by the place in sendJSONRPC that decides them;
\* ok_sse is a 200 response whose body is an event stream ("event: message",
\* then "data: " and the envelope with the result).
HTTPKinds == {"req_error", "conn_error", "bad_status", "body_error", "bad_json",
              "rpc_error", "no_result", "null_result", "ok", "ok_sse"}

\* Outcomes of one exchange over the pipes of a running child.
StdioKinds == {"req_error", "write_error", "decode_error",
               "rpc_error", "no_result", "null_result", "ok"}

Caps == {"tools", "resources", "prompts"}

NoPayload == [form |-> "none", items |-> {}]

\* ------------------------------------------------------------------------
\* Backends (package gateway).

NewHTTPBackend == [healthy |-> TRUE, proc |-> NIL, reqID |-> 0]

NewStdioBackend == [healthy |-> TRUE, proc |-> NIL, reqID |-> 1]

\* The result of a call on a backend: the backend's fields afterwards, the
\* error and result returned, and whether the call dereferenced nil.
Ret(h, p, id, err, result, panic) ==
    [healthy |-> h, proc |-> p, reqID |-> id, err |-> err, result |-> result, panic |-> panic]

\* The error sendJSONRPC returns for each outcome (NIL: none).
HTTPErr(kind) ==
    CASE kind = "req_error" -> "failed to create HTTP request"
      [] kind = "conn_error" -> "HTTP request failed"
      [] kind = "bad_status" -> "HTTP request failed with status"
      [] kind = "body_error" -> "failed to read response body"
      [] kind = "bad_json" -> "failed to unmarshal response"
      [] kind = "rpc_error" -> "JSON-RPC error"
      [] kind = "no_result" -> "no result in response"
      [] OTHER -> NIL

\* A sendJSONRPC that leaves the flag alone when the connection fails.
HTTPHealthAfter_ConnKeeps(h, kind) ==
    CASE kind = "bad_status" -> FALSE
      [] kind \in {"null_result", "ok"} -> TRUE
      [] OTHER -> h

\* A sendJSONRPC that also marks the backend unhealthy when the remote
\* answers with a JSON-RPC error.
HTTPHealthAfter_ErrorUnhealthy(h, kind) ==
    CASE kind \in {"conn_error", "bad_status", "rpc_error"} -> FALSE
      [] kind \in {"null_result", "ok"} -> TRUE
      [] OTHER -> h

\* The healthy field after HTTPBackend.sendJSONRPC: setHealthy(false) after a
\* failed Do and after a status other than 200, setHealthy(true) before the
\* result is returned, untouched on every other return.
HTTPHealthAfter(h, kind) ==
    CASE kind \in {"conn_error", "bad_status"} -> FALSE
      [] kind \in {"null_result", "ok"} -> TRUE
      [] OTHER -> h

\* "result": null decodes to a nil *json.RawMessage that exists in the map.
ResultOf(resp) ==
    CASE resp.kind = "null_result" -> [form |-> "null", items |-> {}]
      [] resp.kind = "ok" -> resp.payload
      [] OTHER -> NoPayload

\* HTTPBackend.sendJSONRPC: the request always carries id 1.
\* json.Unmarshal is given the whole body: a body that is an event stream is
\* not a JSON value.
HTTPKindIn(kind) == IF kind = "ok_sse" THEN "bad_json" ELSE kind

HTTPsendJSONRPC(b, resp) ==
    LET kind == HTTPKindIn(resp.kind)
    IN  Ret(HTTPHealthAfter(b.healthy, kind), b.proc, b.reqID,
            HTTPErr(kind), ResultOf([resp EXCEPT !.kind = kind]), FALSE)

StdioErr(kind) ==
    CASE kind = "req_error" -> "failed to marshal request"
      [] kind = "write_error" -> "failed to write to stdin"
      [] kind = "decode_error" -> "failed to decode response"
      [] kind = "rpc_error" -> "JSON-RPC error"
      [] kind = "no_result" -> "no result in response"
      [] OTHER -> NIL

\* The healthy field after StdioBackend.sendJSONRPC: setHealthy(false) after a
\* failed write and after a failed decode, setHealthy(true) before the result
\* is returned, untouched on every other return.
StdioHealthAfter(h, kind) ==
    CASE kind \in {"write_error", "decode_error"} -> FALSE
      [] kind \in {"null_result", "ok"} -> TRUE
      [] OTHER -> h

\* What the exchange comes to in the state of the child: a write to the pipe of
\* a child that did not start or has exited, or to a closed pipe, fails.
StdioKindIn(p, kind) ==
    IF kind # "req_error" /\ p \in {"dead", "exited", "closed"} THEN "write_error" ELSE kind

\* The write and the read of StdioBackend.sendJSONRPC. They use b.stdin and
\* b.stdout, which are nil unless start set them.
StdioExchange(b, resp) ==
    LET kind == StdioKindIn(b.proc, resp.kind)
    IN  IF kind # "req_error" /\ b.proc \in {NIL, "nopipe"}
        THEN Ret(b.healthy, b.proc, b.reqID, NIL, NoPayload, TRUE)
        ELSE Ret(StdioHealthAfter(b.healthy, kind),
                 IF kind = "write_error" /\ b.proc = "running" THEN "exited" ELSE b.proc,
                 b.reqID, StdioErr(kind),
                 ResultOf([resp EXCEPT !.kind = kind]), FALSE)

\* StdioBackend.sendJSONRPC: the id is taken and reqID incremented under the
\* lock, then the request is written and one response is read.
StdiosendJSONRPC(b, resp) == StdioExchange([b EXCEPT !.reqID = @ + 1], resp)

\* StdioBackend.start: b.cmd is assigned before the pipes are made and before
\* Start is called, so a failed start leaves cmd set.
start(b, outcome) ==
    IF b.proc # NIL THEN [proc |-> b.proc, err |-> NIL]
    ELSE CASE outcome = "pipe_fail" -> [proc |-> "nopipe", err |-> "failed to create pipe"]
           [] outcome = "start_fail" -> [proc |-> "dead", err |-> "failed to start command"]
           [] OTHER -> [proc |-> "running", err |-> NIL]

\* The tail of Initialize, shared by both transports: r is what sendJSONRPC returned.
InitializeTail(r) ==
    IF r.panic THEN r
    ELSE IF r.err # NIL THEN [r EXCEPT !.healthy = FALSE]
    ELSE IF r.result.form = "null" THEN [r EXCEPT !.panic = TRUE]
    ELSE IF r.result.form # "init" THEN
        [r EXCEPT !.err = "failed to unmarshal initialize response", !.result = NoPayload]
    ELSE [r EXCEPT !.healthy = TRUE]

HTTPInitialize(b, resp) == InitializeTail(HTTPsendJSONRPC(b, resp))

StdioInitialize(b, resp) ==
    LET s == start(b, resp.start) IN
    IF s.err # NIL THEN Ret(b.healthy, s.proc, b.reqID, s.err, NoPayload, FALSE)
    ELSE InitializeTail(StdiosendJSONRPC([b EXCEPT !.proc = s.proc], resp))

\* Backend.Initialize and Backend.SendRequest on the backend built from cfg[i].
BackendOf(i) == [healthy |-> healthy[i], proc |-> proc[i], reqID |-> reqID[i]]

Initialize(i, resp) ==
    IF cfg[i].transport = "http" THEN HTTPInitialize(BackendOf(i), resp)
    ELSE StdioInitialize(BackendOf(i), resp)

SendRequest(i, resp) ==
    IF cfg[i].transport = "http" THEN HTTPsendJSONRPC(BackendOf(i), resp)
    ELSE StdiosendJSONRPC(BackendOf(i), resp)

\* A backend that always reports itself healthy.
IsHealthy_Always(i) == TRUE

IsHealthy(i) == healthy[i]

\* The responses a backend of this transport can get, in the state of its child.
Kinds(i) == IF cfg[i].transport = "http" THEN HTTPKinds ELSE StdioKinds

Starts(i) == IF cfg[i].transport = "stdio" /\ proc[i] = NIL THEN StartOutcomes ELSE {"ok"}

\* A response: how the child started (stdio Initialize only), how the exchange
\* went, and the result member when it went well.
Responses(i, payloads) ==
    {[start |-> st, kind |-> k, payload |-> IF k \in {"ok", "ok_sse"} THEN pl ELSE NoPayload] :
        st \in Starts(i), k \in Kinds(i), pl \in payloads}

InitPayloads ==
    {[form |-> "init", items |-> c] : c \in SUBSET Caps} \cup {[form |-> "garbage", items |-> {}]}

\* The backend's fields after a call that returned r.
Apply(i, r) ==
    /\ healthy' = [healthy EXCEPT ![i] = r.healthy]
    /\ proc' = [proc EXCEPT ![i] = r.proc]
    /\ reqID' = [reqID EXCEPT ![i] = r.reqID]
    /\ panicked' = r.panic
    /\ UNCHANGED cfg

\* A call on a stdio backend that reaches sendJSONRPC takes a request id.
MaxReqID == 5

TakesID(i, op, resp) ==
    /\ cfg[i].transport = "stdio"
    /\ ~(op = "Initialize" /\ start(BackendOf(i), resp.start).err # NIL)

MayCall(i, op, resp) == TakesID(i, op, resp) => reqID[i] < MaxReqID

\* ------------------------------------------------------------------------
\* History of the calls made on a backend.

\* What the call came to: a failed start, a nil dereference, or the outcome of
\* the exchange.
Outcome(i, op, resp, r) ==
    IF r.panic THEN "panic"
    ELSE IF cfg[i].transport = "http" THEN
        IF r.err = "failed to unmarshal initialize response" THEN "bad_init_result"
        ELSE resp.kind
    ELSE IF op = "Initialize" /\ start(BackendOf(i), resp.start).err # NIL THEN resp.start
    ELSE IF r.err = "failed to unmarshal initialize response" THEN "bad_init_result"
    ELSE StdioKindIn(start(BackendOf(i), IF op = "Initialize" THEN resp.start ELSE "ok").proc,
                     resp.kind)

TransportFailures == {"conn_error", "bad_status", "body_error", "write_error",
                      "pipe_fail", "start_fail"}

NoCall == [i |-> 0, op |-> "none", outcome |-> "none", before |-> TRUE,
           after |-> TRUE, err |-> NIL]

Record(i, op, resp, r) ==
    LET o == Outcome(i, op, resp, r) IN
    /\ last' = [i |-> i, op |-> op, outcome |-> o, before |-> healthy[i],
                after |-> r.healthy, err |-> r.err]
    /\ tfail' = [tfail EXCEPT ![i] =
                    IF r.err = NIL /\ ~r.panic THEN FALSE
                    ELSE IF o \in TransportFailures THEN TRUE
                    ELSE @]

\* ------------------------------------------------------------------------
\* The gateway before NewGateway has run, and the server package's gateway
\* before its Initialize has run.

\* Capabilities that start with the tools flag set.
GatewayCapabilities_Tools == [c \in Caps |-> c = "tools"]

\* GatewayCapabilities{}: all three flags false.
GatewayCapabilities == [c \in Caps |-> FALSE]

\* NewRoutingTable: three empty maps.
NewRoutingTable == [c \in Caps |-> << >>]

\* No meta-tool has been invoked.
NoMeta ==
    [tool |-> "none", name |-> NIL, args |-> NIL, sent |-> << >>, answer |-> NoPayload,
     isError |-> FALSE, text |-> NIL, data |-> NoPayload, tools |-> << >>, err |-> NIL]

\* Gateway.Close has not been called.
NoValidation == [fn |-> "none", name |-> NIL, ok |-> FALSE, err |-> NIL]

NoClose == [n |-> 0, closed |-> << >>, errs |-> {}, err |-> NIL, changed |-> FALSE]

NoGateway ==
    /\ remote = << >>
    /\ gw = "none"
    /\ registry = << >>
    /\ routingTable = NewRoutingTable
    /\ capabilities = GatewayCapabilities
    /\ server = [created |-> FALSE, tools |-> {}]
    /\ dpc = "idle"
    /\ dsnap = << >>
    /\ di = 0
    /\ dcaps = GatewayCapabilities
    /\ dinit = {}
    /\ runs = 0
    /\ inited = {}
    /\ initfailed = {}
    /\ listed = << >>
    /\ listfailed = {}
    /\ logged = {}
    /\ meta = NoMeta
    /\ closing = NoClose
    /\ validated = NoValidation

\* No configuration file has been read.
NoConfig ==
    /\ conf = [port |-> 0, endpoint |-> "", groups |-> << >>]
    /\ valid = "none"

\* No goroutine is in a call of the lock model, and there is no mutex.
NoLocks ==
    /\ gstack = << >>
    /\ mu = << >>

\* Package server has no gateways and no clients of remote servers.
NoClients ==
    /\ gateways = << >>
    /\ lookup = [tool |-> NIL, client |-> 0, name |-> NIL, err |-> NIL]
    /\ session = << >>
    /\ rmu = << >>
    /\ rpc = << >>
    /\ rop = << >>
    /\ rres = << >>
    /\ wire = << >>

NoAnswer ==
    [method |-> "none", name |-> NIL, code |-> 0, forwarded |-> FALSE, caps |-> {}, listed |-> {},
     id |-> NIL, asked |-> NIL]

\* NewCache: no entry.
NewCache == [c \in Caps |-> [set |-> FALSE, items |-> {}, id |-> NIL]]

\* server.NewGateway: empty maps, nothing answered yet.
ServerNewGateway ==
    /\ srvBackends = {}
    /\ srvToolsMap = << >>
    /\ srvResp = NoAnswer
    /\ srvCalls = 0
    /\ srvReady = FALSE
    /\ srvCache = NewCache
    /\ srvRoutes = [resources |-> << >>, prompts |-> << >>]

\* ------------------------------------------------------------------------
\* SpecBackend: Initialize and SendRequest called one after the other on an
\* HTTP backend and on a stdio backend.

BackendConfig ==
    << [name |-> "b1", transport |-> "http", group |-> "g1"],
       [name |-> "b2", transport |-> "stdio", group |-> "g1"] >>

NewBackend(c) == IF c.transport = "http" THEN NewHTTPBackend ELSE NewStdioBackend

InitBackends(c) ==
    /\ cfg = c
    /\ healthy = [i \in DOMAIN c |-> NewBackend(c[i]).healthy]
    /\ proc = [i \in DOMAIN c |-> NewBackend(c[i]).proc]
    /\ reqID = [i \in DOMAIN c |-> NewBackend(c[i]).reqID]
    /\ panicked = FALSE
    /\ last = NoCall
    /\ tfail = [i \in DOMAIN c |-> FALSE]

Callers == {"c1", "c2"}

NoResult == [id |-> 0, err |-> NIL]

\* No caller is inside a call and the pipes are empty.
InitCallers ==
    /\ cpc = [c \in Callers |-> "idle"]
    /\ cop = [c \in Callers |-> "none"]
    /\ cid = [c \in Callers |-> 0]
    /\ cres = [c \in Callers |-> NoResult]
    /\ cdone = [c \in Callers |-> FALSE]
    /\ stdinQ = << >>
    /\ stdoutQ = << >>

InitB == InitBackends(BackendConfig) /\ InitCallers /\ NoGateway /\ ServerNewGateway /\ NoConfig /\ NoLocks /\ NoClients

SendPayloads == {[form |-> "list", items |-> {}], [form |-> "garbage", items |-> {}]}

CallInitialize ==
    \E i \in DOMAIN cfg : \E resp \in Responses(i, InitPayloads) :
        /\ ~panicked
        /\ MayCall(i, "Initialize", resp)
        /\ Apply(i, Initialize(i, resp))
        /\ Record(i, "Initialize", resp, Initialize(i, resp))
        /\ UNCHANGED <<cvars, gvars, dvars, svars, mvars, kvars, gstack, mu, rvars>>

CallSendRequest ==
    \E i \in DOMAIN cfg : \E resp \in Responses(i, SendPayloads) :
        /\ ~panicked
        /\ MayCall(i, "SendRequest", resp)
        /\ Apply(i, SendRequest(i, resp))
        /\ Record(i, "SendRequest", resp, SendRequest(i, resp))
        /\ UNCHANGED <<cvars, gvars, dvars, svars, mvars, kvars, gstack, mu, rvars>>

NextB ==
    \/ CallInitialize
    \/ CallSendRequest

SpecBackend == InitB /\ [][NextB]_vars

\* C4: a fresh backend is healthy, a backend whose last call succeeded is
\* healthy, and a backend that met a transport failure (a connection error, a
\* status other than success, a child that cannot be started, a broken pipe, a
\* timeout) is unhealthy until a call on it succeeds.
C4_HealthFollowsCalls ==
    ~panicked =>
        \A i \in DOMAIN cfg :
            /\ last.op = "none" => healthy[i]
            /\ (last.i = i /\ last.err = NIL) => healthy[i]
            /\ tfail[i] => ~healthy[i]

\* C5: a call whose response is no JSON-RPC envelope, or an envelope without a
\* result member, returns an error and leaves the backend unhealthy.
C5_ProtocolFailureUnhealthy ==
    last.outcome \in {"bad_json", "decode_error", "no_result"} =>
        /\ last.err # NIL
        /\ ~healthy[last.i]

\* C6 as stated: a JSON-RPC error object answered to Initialize or to
\* SendRequest is returned to the caller and leaves the health flag as it was.
C6_RemoteErrorKeepsHealth ==
    last.outcome = "rpc_error" =>
        /\ last.err = "JSON-RPC error"
        /\ healthy[last.i] = last.before

\* C6 as amended: a JSON-RPC error object is returned to the caller; answered
\* to SendRequest it leaves the health flag as it was, answered to Initialize
\* it leaves the backend unhealthy.
C6_RemoteErrorHealth ==
    last.outcome = "rpc_error" =>
        /\ last.err = "JSON-RPC error"
        /\ last.op = "SendRequest" => healthy[last.i] = last.before
        /\ last.op = "Initialize" => ~healthy[last.i]

C6_Witness ==
    /\ last.outcome = "rpc_error"
    /\ last.op = "SendRequest"
    /\ last.before
    /\ healthy[last.i]
    /\ cfg[last.i].transport = "http"

\* ------------------------------------------------------------------------
\* SpecConc: two callers inside Initialize/SendRequest of the same backend at
\* the same time. The steps of a call are the places where it takes or gives
\* up b.mu, and where it waits for the remote.

\* The backend the callers share: an HTTP backend, or a stdio backend whose
\* child was started by an earlier Initialize that took id 1.
ConcConfigs ==
    { << [name |-> "b1", transport |-> "http", group |-> "g1"] >>,
      << [name |-> "b1", transport |-> "stdio", group |-> "g1"] >> }

\* The backend after construction and, for stdio, one successful Initialize.
Started(b) ==
    [b EXCEPT !.proc = "running", !.reqID = @ + 1]

InitC ==
    /\ cfg \in ConcConfigs
    /\ LET b == IF cfg[1].transport = "stdio" THEN Started(NewStdioBackend)
                ELSE NewHTTPBackend
       IN  /\ healthy = << b.healthy >>
           /\ proc = << b.proc >>
           /\ reqID = << b.reqID >>
    /\ panicked = FALSE
    /\ last = NoCall
    /\ tfail = << FALSE >>
    /\ InitCallers
    /\ NoGateway
    /\ ServerNewGateway
    /\ NoConfig
    /\ NoLocks
    /\ NoClients

Ops == {"Initialize", "SendRequest"}

\* What the child answers: an envelope with a result, or with an error object.
ChildKinds == {"ok", "rpc_error"}

InitResult == [form |-> "init", items |-> {}]

\* What the call of caller c returns, given what sendJSONRPC returned.
Returned(c, r) == IF cop[c] = "Initialize" THEN InitializeTail(r) ELSE r

\* HTTPBackend.sendJSONRPC up to client.Do: the request, with id 1, is posted.
\* No lock is taken.
HTTPDo(c) ==
    /\ cfg[1].transport = "http"
    /\ cpc[c] = "idle"
    /\ \E op \in Ops : cop' = [cop EXCEPT ![c] = op]
    /\ cid' = [cid EXCEPT ![c] = 1]
    /\ cpc' = [cpc EXCEPT ![c] = "inflight"]
    /\ cres' = [cres EXCEPT ![c] = NoResult]
    /\ cdone' = [cdone EXCEPT ![c] = FALSE]
    /\ UNCHANGED <<bvars, hvars, stdinQ, stdoutQ, gvars, dvars, svars, mvars, kvars, gstack, mu, rvars>>

\* The rest of HTTPBackend.sendJSONRPC: the response of this caller's own
\* connection arrives (or the exchange fails). The request was made with the
\* caller's context: once that is done, client.Do or the read of the body
\* fails.
HTTPReceive(c) ==
    /\ cpc[c] = "inflight"
    /\ \E k \in IF cdone[c] THEN {"conn_error", "body_error"}
               ELSE HTTPKinds \ {"req_error", "null_result"} :
        LET r == Returned(c, HTTPsendJSONRPC(BackendOf(1),
                        [start |-> "ok", kind |-> k, payload |-> InitResult]))
        IN  /\ Apply(1, r)
            /\ cres' = [cres EXCEPT ![c] = [id |-> IF r.err = NIL THEN cid[c] ELSE 0,
                                            err |-> r.err]]
    /\ cpc' = [cpc EXCEPT ![c] = "idle"]
    /\ UNCHANGED <<hvars, cop, cid, cdone, stdinQ, stdoutQ, gvars, dvars, svars, mvars, kvars, gstack, mu, rvars>>

\* StdioBackend.sendJSONRPC, the locked section: currentID := reqID; reqID++.
\* (For Initialize, start() has returned because cmd is set.)
StdioTakeID(c) ==
    /\ cfg[1].transport = "stdio"
    /\ cpc[c] = "idle"
    /\ reqID[1] < MaxReqID
    /\ \E op \in Ops : cop' = [cop EXCEPT ![c] = op]
    /\ cid' = [cid EXCEPT ![c] = reqID[1]]
    /\ reqID' = [reqID EXCEPT ![1] = @ + 1]
    /\ cpc' = [cpc EXCEPT ![c] = "write"]
    /\ cres' = [cres EXCEPT ![c] = NoResult]
    /\ cdone' = [cdone EXCEPT ![c] = FALSE]
    /\ UNCHANGED <<cfg, healthy, proc, panicked, hvars, stdinQ, stdoutQ, gvars, dvars, svars, mvars, kvars, gstack, mu, rvars>>

\* b.stdin.Write(jsonData), outside the lock: the request enters the pipe, or
\* the write fails because the child has exited.
StdioWrite(c) ==
    /\ cpc[c] = "write"
    /\ IF proc[1] = "running"
       THEN /\ stdinQ' = Append(stdinQ, cid[c])
            /\ cpc' = [cpc EXCEPT ![c] = "read"]
            /\ UNCHANGED <<bvars, cres>>
       ELSE LET r == Returned(c, StdioExchange(BackendOf(1),
                        [start |-> "ok", kind |-> "write_error", payload |-> NoPayload]))
            IN  /\ Apply(1, r)
                /\ cres' = [cres EXCEPT ![c] = [id |-> 0, err |-> r.err]]
                /\ cpc' = [cpc EXCEPT ![c] = "idle"]
                /\ UNCHANGED stdinQ
    /\ UNCHANGED <<hvars, cop, cid, cdone, stdoutQ, gvars, dvars, svars, mvars, kvars, gstack, mu, rvars>>

\* json.NewDecoder(b.stdout).Decode, outside the lock: a fresh decoder reads
\* what is in the pipe, returns the first value and drops whatever else it
\* buffered. At the end of the stream the decode fails.
StdioRead(c) ==
    /\ cpc[c] = "read"
    /\ IF stdoutQ # << >>
       THEN \E n \in 1..Len(stdoutQ) :
                LET resp == Head(stdoutQ)
                    r == Returned(c, StdioExchange([BackendOf(1) EXCEPT !.proc = "running"],
                            [start |-> "ok", kind |-> resp.kind, payload |-> InitResult]))
                IN  /\ Apply(1, [r EXCEPT !.proc = proc[1]])
                    /\ cres' = [cres EXCEPT ![c] = [id |-> IF r.err = NIL THEN resp.id ELSE 0,
                                                    err |-> r.err]]
                    /\ stdoutQ' = SubSeq(stdoutQ, n + 1, Len(stdoutQ))
       ELSE /\ proc[1] = "exited"
            /\ LET r == Returned(c, StdioExchange([BackendOf(1) EXCEPT !.proc = "running"],
                            [start |-> "ok", kind |-> "decode_error", payload |-> NoPayload]))
               IN  /\ Apply(1, [r EXCEPT !.proc = proc[1]])
                   /\ cres' = [cres EXCEPT ![c] = [id |-> 0, err |-> r.err]]
            /\ UNCHANGED stdoutQ
    /\ cpc' = [cpc EXCEPT ![c] = "idle"]
    /\ UNCHANGED <<hvars, cop, cid, cdone, stdinQ, gvars, dvars, svars, mvars, kvars, gstack, mu, rvars>>

\* The child reads the next request from its stdin and writes the response,
\* which carries the id of the request.
ChildAnswer ==
    /\ proc[1] = "running"
    /\ stdinQ # << >>
    /\ \E k \in ChildKinds :
        stdoutQ' = Append(stdoutQ, [id |-> Head(stdinQ), kind |-> k])
    /\ stdinQ' = Tail(stdinQ)
    /\ UNCHANGED <<bvars, hvars, cpc, cop, cid, cres, cdone, gvars, dvars, svars, mvars, kvars, gstack, mu, rvars>>

\* The child exits: its pipes close.
ChildExit ==
    /\ cfg[1].transport = "stdio"
    /\ proc[1] = "running"
    /\ proc' = [proc EXCEPT ![1] = "exited"]
    /\ stdinQ' = << >>
    /\ UNCHANGED <<cfg, healthy, reqID, panicked, hvars, cpc, cop, cid, cres, cdone, stdoutQ, gvars, dvars, svars, mvars, kvars, gstack, mu, rvars>>

\* The context given to the call of caller c is cancelled or its deadline
\* passes while the call is under way. Only the HTTP request was built from it.
CtxDone(c) ==
    /\ cpc[c] # "idle"
    /\ ~cdone[c]
    /\ cdone' = [cdone EXCEPT ![c] = TRUE]
    /\ UNCHANGED <<bvars, hvars, cpc, cop, cid, cres, stdinQ, stdoutQ, gvars, dvars, svars, mvars, kvars, gstack, mu, rvars>>

NextC ==
    \/ \E c \in Callers : HTTPDo(c)
    \/ \E c \in Callers : HTTPReceive(c)
    \/ \E c \in Callers : StdioTakeID(c)
    \/ \E c \in Callers : StdioWrite(c)
    \/ \E c \in Callers : StdioRead(c)
    \/ ChildAnswer
    \/ ChildExit
    \/ \E c \in Callers : CtxDone(c)

SpecConc == InitC /\ [][NextC]_vars

\* The steps of a call that has begun are taken when they can be; the child
\* and the remote server answer or not as they please.
SpecConcFair ==
    /\ SpecConc
    /\ \A c \in Callers :
        WF_vars(HTTPReceive(c)) /\ WF_vars(StdioWrite(c)) /\ WF_vars(StdioRead(c))

\* C28: a call whose context is done while the remote has not answered
\* returns an error to its caller in the end, and the backend is unhealthy
\* then.
C28_CancelledCallReturns ==
    \A c \in Callers :
        (cdone[c] /\ cpc[c] # "idle") ~> (cpc[c] = "idle" /\ cres[c].err # NIL /\ ~healthy[1])

\* C2: every caller of a stdio backend that gets a response gets the response
\* to its own request: the id of the response is the id the caller wrote.
C2_OwnResponse ==
    \A c \in Callers :
        (cfg[1].transport = "stdio" /\ cres[c].id # 0) => cres[c].id = cid[c]

\* The callers whose request is on the transport and not yet answered.
InFlight == {c \in Callers : cpc[c] \in {"inflight", "read"}}

\* C3: a backend never has more than one request in flight.
C3_OneInFlight == Cardinality(InFlight) <= 1

\* C27: an HTTP call answered with status 200 and an envelope that carries a
\* result returns without error and leaves the backend healthy, whether the
\* envelope is the body or the first data: line of an event stream.
C27_EventStreamAccepted ==
    (last.i # 0 /\ cfg[last.i].transport = "http" /\ last.outcome \in {"ok", "ok_sse"})
        => (last.err = NIL /\ last.after)

\* C24: the ids of the requests a backend sends are pairwise distinct (the
\* requests of two callers never carry the same id) and reach the transport
\* in strictly increasing order.
C24_IdsDistinctIncreasing ==
    /\ \A c, d \in Callers :
        (c # d /\ cid[c] # 0 /\ cid[d] # 0) => cid[c] # cid[d]
    /\ \A k \in 1..(Len(stdinQ) - 1) : stdinQ[k] < stdinQ[k + 1]

\* ------------------------------------------------------------------------
\* Spec: NewGateway builds the registry from the configuration, then
\* Gateway.Initialize runs capability discovery over the healthy backends
\* and creates the client-facing server.

Transports == {"http", "stdio"}

MetaTools == {"list_tools", "describe_tool", "call_tool"}

Remote(caps, tools, resources, prompts) ==
    [caps |-> caps, tools |-> tools, resources |-> resources, prompts |-> prompts]

Backend(name, transport, group) == [name |-> name, transport |-> transport, group |-> group]

\* Configurations with the servers behind them: none; two HTTP backends;
\* a stdio and an HTTP backend listing the same tool; one name configured in
\* two groups; a transport that is neither http nor stdio; a server that
\* advertises a capability with an empty listing.
Scenarios ==
    { [cfg |-> << >>, remote |-> << >>],
      [cfg |-> << Backend("b1", "http", "g1"), Backend("b2", "http", "g1") >>,
       remote |-> << Remote({"tools"}, {"git_commit"}, {}, {}),
                     Remote({"tools", "resources"}, {"read_file"}, {"file://a"}, {}) >>],
      [cfg |-> << Backend("b1", "stdio", "g1"), Backend("b2", "http", "g2") >>,
       remote |-> << Remote({"tools", "prompts"}, {"git_commit"}, {}, {"greeting"}),
                     Remote({"tools"}, {"git_commit", "read_file"}, {}, {}) >>],
      [cfg |-> << Backend("b1", "http", "g1"), Backend("b1", "stdio", "g2") >>,
       remote |-> << Remote({"tools"}, {"git_commit"}, {}, {}),
                     Remote({"resources"}, {}, {"file://a"}, {}) >>],
      [cfg |-> << Backend("b1", "http", "g1"), Backend("b2", "ws", "g1") >>,
       remote |-> << Remote({"tools"}, {"git_commit"}, {}, {}),
                     Remote({"tools"}, {"read_file"}, {}, {}) >>],
      [cfg |-> << Backend("b1", "stdio", "g1") >>,
       remote |-> << Remote({"resources"}, {"git_commit"}, {}, {}) >>] }

Init ==
    /\ \E s \in Scenarios : cfg = s.cfg /\ remote = s.remote
    /\ healthy = << >>
    /\ proc = << >>
    /\ reqID = << >>
    /\ panicked = FALSE
    /\ last = NoCall
    /\ tfail = << >>
    /\ InitCallers
    /\ gw = "none"
    /\ registry = << >>
    /\ routingTable = NewRoutingTable
    /\ capabilities = GatewayCapabilities
    /\ server = [created |-> FALSE, tools |-> {}]
    /\ dpc = "idle"
    /\ dsnap = << >>
    /\ di = 0
    /\ dcaps = GatewayCapabilities
    /\ dinit = {}
    /\ runs = 0
    /\ inited = {}
    /\ initfailed = {}
    /\ listed = << >>
    /\ listfailed = {}
    /\ logged = {}
    /\ meta = NoMeta
    /\ closing = NoClose
    /\ validated = NoValidation
    /\ ServerNewGateway
    /\ NoConfig
    /\ NoLocks
    /\ NoClients

\* The backends NewGateway constructs before it returns: all of them, or
\* those in front of the first unsupported transport.
Constructed(c) == {i \in DOMAIN c : \A j \in 1..i : c[j].transport \in Transports}

\* BackendManager.AddBackend for each backend in the order NewGateway visits
\* them (the order of cfg): a later backend of the same name replaces the
\* earlier one.
AddBackends(c) ==
    [nm \in {c[i].name : i \in DOMAIN c} |->
        CHOOSE i \in DOMAIN c : c[i].name = nm /\ \A j \in DOMAIN c : c[j].name = nm => j <= i]

NewGateway ==
    /\ gw = "none"
    /\ ~panicked
    /\ healthy' = [i \in Constructed(cfg) |-> NewBackend(cfg[i]).healthy]
    /\ proc' = [i \in Constructed(cfg) |-> NewBackend(cfg[i]).proc]
    /\ reqID' = [i \in Constructed(cfg) |-> NewBackend(cfg[i]).reqID]
    /\ IF Constructed(cfg) = DOMAIN cfg
       THEN gw' = "gateway" /\ registry' = AddBackends(cfg)
       ELSE gw' = "error" /\ registry' = registry
    /\ UNCHANGED <<cfg, panicked, hvars, cvars, dvars, svars, mvars, kvars, gstack, mu, rvars>>
    /\ UNCHANGED <<remote, routingTable, capabilities, server>>

\* A manager that hands every backend to discovery.
GetHealthyBackends_All == {registry[nm] : nm \in DOMAIN registry}

\* BackendManager.GetHealthyBackends, and the orders in which the slice built
\* from the map can come out.
GetHealthyBackends == {registry[nm] : nm \in {n \in DOMAIN registry : IsHealthy(registry[n])}}

Orders(S) ==
    {s \in [1..Cardinality(S) -> S] : \A a, b \in 1..Cardinality(S) : a # b => s[a] # s[b]}

MaxInits == 2

\* A Gateway.Initialize that creates the server before discovery.
GatewayInitialize_ServerFirst ==
    /\ gw = "gateway"
    /\ dpc = "idle"
    /\ ~panicked
    /\ runs < MaxInits
    /\ \E s \in Orders(GetHealthyBackends) :
        /\ dsnap' = s
        /\ dpc' = IF GetHealthyBackends = {} THEN "return" ELSE "initialize"
    /\ di' = 1
    /\ dcaps' = GatewayCapabilities
    /\ dinit' = {}
    /\ runs' = runs + 1
    /\ inited' = {}
    /\ initfailed' = {}
    /\ listed' = [i \in DOMAIN cfg |-> [c \in Caps |-> {}]]
    /\ listfailed' = {}
    /\ logged' = {}
    /\ meta' = NoMeta
    /\ server' = [created |-> TRUE, tools |-> MetaTools]
    /\ UNCHANGED <<remote, gw, registry, routingTable, capabilities>>
    /\ UNCHANGED <<bvars, hvars, cvars, svars, kvars, gstack, mu, rvars, closing, validated>>

\* Gateway.Initialize up to the snapshot DiscoverCapabilities takes. It reads
\* no record of an earlier Close.
GatewayInitialize ==
    /\ gw = "gateway"
    /\ dpc = "idle"
    /\ ~panicked
    /\ runs < MaxInits
    /\ \E s \in Orders(GetHealthyBackends) :
        /\ dsnap' = s
        /\ dpc' = IF GetHealthyBackends = {} THEN "return" ELSE "initialize"
    /\ di' = 1
    /\ dcaps' = GatewayCapabilities
    /\ dinit' = {}
    /\ runs' = runs + 1
    /\ inited' = {}
    /\ initfailed' = {}
    /\ listed' = [i \in DOMAIN cfg |-> [c \in Caps |-> {}]]
    /\ listfailed' = {}
    /\ logged' = {}
    /\ meta' = NoMeta
    /\ UNCHANGED <<bvars, hvars, cvars, gvars, svars, kvars, gstack, mu, rvars, closing, validated>>

\* The capability DiscoverCapabilities handles after `stage` for a backend
\* that advertised `advertised`: tools, then resources, then prompts.
StageAfter(stage, advertised) ==
    LET rest == CASE stage = "initialize" -> << "tools", "resources", "prompts" >>
                  [] stage = "tools" -> << "resources", "prompts" >>
                  [] stage = "resources" -> << "prompts" >>
                  [] OTHER -> << >>
        todo == SelectSeq(rest, LAMBDA c : c \in advertised)
    IN  IF todo = << >> THEN "next" ELSE Head(todo)

\* A discovery that aggregates only the tools capability.
SetFlag_ToolsOnly(caps, c) == IF c = "tools" THEN [caps EXCEPT ![c] = TRUE] ELSE caps

\* The local capabilities once the backend's capability c is seen.
SetFlag(caps, c) == [caps EXCEPT ![c] = TRUE]

\* Move on in the loop of DiscoverCapabilities.
Advance(stage, advertised) ==
    LET s == StageAfter(stage, advertised) IN
    IF s \in Caps
    THEN dpc' = s /\ dcaps' = SetFlag(dcaps, s) /\ di' = di
    ELSE /\ dcaps' = dcaps
         /\ IF di < Cardinality(DOMAIN dsnap)
            THEN dpc' = "initialize" /\ di' = di + 1
            ELSE dpc' = "return" /\ di' = di

Garbage == [form |-> "garbage", items |-> {}]

\* The loop body of DiscoverCapabilities up to the end of backend.Initialize.
discoverInitialize ==
    /\ dpc = "initialize"
    /\ ~panicked
    /\ LET i == dsnap[di] IN
       \E resp \in Responses(i, {[form |-> "init", items |-> remote[i].caps], Garbage}) :
        LET r == Initialize(i, resp) IN
        /\ MayCall(i, "Initialize", resp)
        /\ Apply(i, r)
        /\ IF r.panic THEN UNCHANGED <<dpc, di, dcaps, dinit, inited, initfailed>>
           ELSE IF r.err # NIL
           THEN /\ initfailed' = initfailed \cup {i}
                /\ Advance("prompts", {})
                /\ UNCHANGED <<dinit, inited>>
           ELSE /\ inited' = inited \cup {i}
                /\ dinit' = r.result.items
                /\ Advance("initialize", r.result.items)
                /\ UNCHANGED initfailed
    /\ UNCHANGED <<hvars, cvars, gvars, svars, mvars, kvars, gstack, mu, rvars, dsnap, runs, listed, listfailed, logged>>

\* A discovery that stores the group of the backend in a route.
RouteTo_Group(i) == cfg[i].group

\* The name a route stores: backendInfo.Name.
RouteTo(i) == cfg[i].name

\* A discovery whose loop keeps the entry a key already has.
MapKeys_KeepOld(map, keys, name) ==
    [k \in (DOMAIN map) \cup keys |-> IF k \in DOMAIN map THEN map[k] ELSE name]

\* The loop `for _, x := range resp.X { map[x.Key] = backendInfo.Name }`.
MapKeys(map, keys, name) ==
    [k \in (DOMAIN map) \cup keys |-> IF k \in keys THEN name ELSE map[k]]

\* A discovery that returns when a listing request fails.
discover_AbortOnError(c) ==
    /\ ~panicked
    /\ LET i == dsnap[di] IN
       \E resp \in Responses(i, {[form |-> "list", items |-> remote[i][c]], Garbage}) :
        LET s == SendRequest(i, resp)
            r == IF s.err = NIL /\ s.result.form = "null" THEN [s EXCEPT !.panic = TRUE] ELSE s
        IN
        /\ MayCall(i, "SendRequest", resp)
        /\ Apply(i, r)
        /\ IF r.panic THEN UNCHANGED <<dpc, di, dcaps, routingTable, listed, listfailed, logged>>
           ELSE IF r.err = NIL /\ r.result.form = "list"
           THEN /\ Advance(c, dinit)
                /\ routingTable' = [routingTable EXCEPT
                                      ![c] = MapKeys(@, r.result.items, RouteTo(i))]
                /\ listed' = [listed EXCEPT ![i][c] = r.result.items]
                /\ logged' = logged \cup
                    {[msg |-> "Mapped", kind |-> c, key |-> k, backend |-> RouteTo(i)] :
                        k \in r.result.items}
                /\ UNCHANGED listfailed
           ELSE /\ dpc' = "return" /\ di' = di /\ dcaps' = dcaps
                /\ listfailed' = listfailed \cup {<<i, c>>}
                /\ UNCHANGED <<routingTable, listed, logged>>
    /\ UNCHANGED <<hvars, cvars, svars, mvars, kvars, gstack, mu, rvars, dsnap, dinit, runs, inited, initfailed>>
    /\ UNCHANGED <<remote, gw, registry, capabilities, server>>

\* discoverTools, discoverResources, discoverPrompts: one listing request,
\* then the keys of the answer are mapped to the backend's name.
discover(c) ==
    /\ ~panicked
    /\ LET i == dsnap[di] IN
       \E resp \in Responses(i, {[form |-> "list", items |-> remote[i][c]], Garbage}) :
        LET s == SendRequest(i, resp)
            r == IF s.err = NIL /\ s.result.form = "null" THEN [s EXCEPT !.panic = TRUE] ELSE s
        IN
        /\ MayCall(i, "SendRequest", resp)
        /\ Apply(i, r)
        /\ IF r.panic THEN UNCHANGED <<dpc, di, dcaps, routingTable, listed, listfailed, logged>>
           ELSE /\ Advance(c, dinit)
                /\ IF r.err = NIL /\ r.result.form = "list"
                   THEN /\ routingTable' = [routingTable EXCEPT
                                              ![c] = MapKeys(@, r.result.items, RouteTo(i))]
                        /\ listed' = [listed EXCEPT ![i][c] = r.result.items]
                        /\ logged' = logged \cup
                            {[msg |-> "Mapped", kind |-> c, key |-> k, backend |-> RouteTo(i)] :
                                k \in r.result.items}
                        /\ UNCHANGED listfailed
                   ELSE /\ listfailed' = listfailed \cup {<<i, c>>}
                        /\ UNCHANGED <<routingTable, listed, logged>>
    /\ UNCHANGED <<hvars, cvars, svars, mvars, kvars, gstack, mu, rvars, dsnap, dinit, runs, inited, initfailed>>
    /\ UNCHANGED <<remote, gw, registry, capabilities, server>>

discoverTools ==
    /\ dpc = "tools"
    /\ discover("tools")

discoverResources ==
    /\ dpc = "resources"
    /\ discover("resources")

discoverPrompts ==
    /\ dpc = "prompts"
    /\ discover("prompts")

\* Gateway.Initialize after DiscoverCapabilities returned: the flags are
\* stored, the server is created, the meta-tools are registered.
InitializeReturn ==
    /\ dpc = "return"
    /\ ~panicked
    /\ capabilities' = dcaps
    /\ server' = [created |-> TRUE, tools |-> IF dcaps["tools"] THEN MetaTools ELSE {}]
    /\ dpc' = "idle"
    /\ UNCHANGED <<bvars, hvars, cvars, svars, mvars, kvars, gstack, mu, rvars>>
    /\ UNCHANGED <<remote, gw, registry, routingTable>>
    /\ UNCHANGED <<dsnap, di, dcaps, dinit, runs, inited, initfailed, listed, listfailed, logged>>


\* ------------------------------------------------------------------------
\* The meta-tools, called by the client-facing server once Gateway.Initialize
\* has returned and registered them.

\* The tool names a client asks for.
ToolNames == {"git_commit", "read_file", "no_such_tool", "call_tool"}

\* The tool_name parameters a client gives to describe_tool and call_tool.
RequestedTools == ToolNames \ MetaTools

\* The server answers clients once Initialize has returned; clients are
\* followed until the gateway is closed for the first time.
Serving == gw = "gateway" /\ server.created /\ dpc = "idle" /\ ~panicked /\ closing.n = 0

\* The arguments object of a call_tool invocation.
Arguments == {"{}", "{message: fix}"}

\* Results a remote gives to tools/call: a tool result, with or without isError.
ToolPayloads ==
    {[form |-> "tool", items |-> {"content"}], [form |-> "tool", items |-> {"content", "isError"}]}

\* The answers a backend that discovery has reached can give to a request.
Answers(i, payloads) ==
    {resp \in Responses(i, payloads) : resp.kind # "req_error" /\ resp.start = "ok"}

\* A call_tool that forwards the tool name without the arguments.
ToolCallRequest_NoArguments(i, name, args) ==
    [to |-> i, method |-> "tools/call", name |-> name, args |-> "{}"]

\* The request HandleCallTool hands to SendRequest of backend i: method
\* tools/call, params {name, arguments}.
ToolCallRequest(i, name, args) ==
    [to |-> i, method |-> "tools/call", name |-> name, args |-> args]

\* An error result that is not marked as one.
ErrorResult_Unmarked(m, text) == [m EXCEPT !.text = text, !.err = text]

\* A meta-tool invocation that returns an error result carrying `text`.
ErrorResult(m, text) == [m EXCEPT !.isError = TRUE, !.text = text, !.err = text]

\* What a handler makes of SendRequest returning (nil, nil): *response panics.
Deref(r) == IF r.err = NIL /\ r.result.form = "null" THEN [r EXCEPT !.panic = TRUE] ELSE r

\* A call_tool that sends the request once more when it failed.
HandleCallTool_Retry ==
    /\ Serving
    /\ "call_tool" \in server.tools
    /\ \E name \in RequestedTools : \E args \in Arguments :
        LET m == [NoMeta EXCEPT !.tool = "call_tool", !.name = name, !.args = args]
        IN
        IF name \notin DOMAIN routingTable["tools"]
        THEN meta' = ErrorResult(m, "tool not found") /\ UNCHANGED bvars
        ELSE IF routingTable["tools"][name] \notin DOMAIN registry
        THEN meta' = ErrorResult(m, "backend not available") /\ UNCHANGED bvars
        ELSE
        LET i == registry[routingTable["tools"][name]] IN
        IF ~IsHealthy(i)
        THEN meta' = ErrorResult(m, "backend is not healthy") /\ UNCHANGED bvars
        ELSE
        \E resp \in Answers(i, ToolPayloads \cup {Garbage}) :
            LET r == Deref(SendRequest(i, resp))
                sent == [m EXCEPT !.answer = ResultOf(resp),
                           !.sent = << ToolCallRequest(i, name, args) >>]
            IN
            /\ MayCall(i, "SendRequest", resp)
            /\ Apply(i, r)
            /\ meta' = IF r.panic THEN sent
                       ELSE IF r.err # NIL
                       THEN [ErrorResult([sent EXCEPT !.sent = @ \o @],
                                         "failed to call tool on backend") EXCEPT !.err = r.err]
                       ELSE IF r.result.form # "tool"
                       THEN ErrorResult(sent, "failed to parse tool response")
                       ELSE [sent EXCEPT !.isError = "isError" \in r.result.items,
                                         !.data = r.result]
    /\ UNCHANGED <<hvars, cvars, gvars, dvars, svars, kvars, gstack, mu, rvars, closing, validated>>

HandleCallTool ==
    /\ Serving
    /\ "call_tool" \in server.tools
    /\ \E name \in RequestedTools : \E args \in Arguments :
        LET m == [NoMeta EXCEPT !.tool = "call_tool", !.name = name, !.args = args]
        IN
        IF name \notin DOMAIN routingTable["tools"]
        THEN meta' = ErrorResult(m, "tool not found") /\ UNCHANGED bvars
        ELSE IF routingTable["tools"][name] \notin DOMAIN registry
        THEN meta' = ErrorResult(m, "backend not available") /\ UNCHANGED bvars
        ELSE
        LET i == registry[routingTable["tools"][name]] IN
        IF ~IsHealthy(i)
        THEN meta' = ErrorResult(m, "backend is not healthy") /\ UNCHANGED bvars
        ELSE
        \E resp \in Answers(i, ToolPayloads \cup {Garbage}) :
            LET r == Deref(SendRequest(i, resp))
                sent == [m EXCEPT !.answer = ResultOf(resp),
                           !.sent = << ToolCallRequest(i, name, args) >>]
            IN
            /\ MayCall(i, "SendRequest", resp)
            /\ Apply(i, r)
            /\ meta' = IF r.panic THEN sent
                       ELSE IF r.err # NIL
                       THEN [ErrorResult(sent, "failed to call tool on backend") EXCEPT !.err = r.err]
                       ELSE IF r.result.form # "tool"
                       THEN ErrorResult(sent, "failed to parse tool response")
                       ELSE [sent EXCEPT !.isError = "isError" \in r.result.items,
                                         !.data = r.result]
    /\ UNCHANGED <<hvars, cvars, gvars, dvars, svars, kvars, gstack, mu, rvars, closing, validated>>

\* A listing that names every tool twice.
GetAllTools_Twice == {o \o o : o \in Orders(DOMAIN routingTable["tools"])}

\* RoutingTable.GetAllTools: the keys of the tools map, in the order the map
\* iteration yields them.
GetAllTools == Orders(DOMAIN routingTable["tools"])

\* HandleListTools: answers from the routing table alone.
HandleListTools ==
    /\ Serving
    /\ "list_tools" \in server.tools
    /\ \E tools \in GetAllTools :
        meta' = [NoMeta EXCEPT !.tool = "list_tools", !.tools = tools]
    /\ UNCHANGED <<bvars, hvars, cvars, gvars, dvars, svars, kvars, gstack, mu, rvars, closing, validated>>

\* HandleDescribeTool: the owner is asked for its tools (whether healthy or
\* not) and the description of the named tool is returned.
HandleDescribeTool ==
    /\ Serving
    /\ "describe_tool" \in server.tools
    /\ \E name \in RequestedTools :
        LET m == [NoMeta EXCEPT !.tool = "describe_tool", !.name = name] IN
        IF name \notin DOMAIN routingTable["tools"]
        THEN meta' = ErrorResult(m, "tool not found") /\ UNCHANGED bvars
        ELSE IF routingTable["tools"][name] \notin DOMAIN registry
        THEN meta' = ErrorResult(m, "backend not available") /\ UNCHANGED bvars
        ELSE
        LET i == registry[routingTable["tools"][name]] IN
        \E resp \in Answers(i, {[form |-> "list", items |-> remote[i].tools], Garbage}) :
            LET r == Deref(SendRequest(i, resp))
                sent == [m EXCEPT !.answer = ResultOf(resp),
                           !.sent = << [to |-> i, method |-> "tools/list",
                                        name |-> NIL, args |-> "{}"] >>]
            IN
            /\ MayCall(i, "SendRequest", resp)
            /\ Apply(i, r)
            /\ meta' = IF r.panic THEN sent
                       ELSE IF r.err # NIL
                       THEN [ErrorResult(sent, "failed to get tools from backend") EXCEPT !.err = r.err]
                       ELSE IF r.result.form # "list"
                       THEN ErrorResult(sent, "failed to parse tools response")
                       ELSE IF name \notin r.result.items
                       THEN ErrorResult(sent, "tool not found in backend")
                       ELSE [sent EXCEPT !.text = name, !.tools = << name >>]
    /\ UNCHANGED <<hvars, cvars, gvars, dvars, svars, kvars, gstack, mu, rvars, closing, validated>>

\* ------------------------------------------------------------------------
\* Close (package gateway).

MaxCloses == 2

\* HTTPBackend.Close: nothing to release.
HTTPBackendClose(b) == [proc |-> b.proc, err |-> NIL]

\* A Close that reports the error of waiting a second time for the child.
StdioBackendClose_WaitError(b) ==
    [proc |-> IF b.proc \in {"running", "exited"} THEN "closed" ELSE b.proc,
     err |-> IF b.proc = "closed" THEN "Wait was already called" ELSE NIL]

\* StdioBackend.Close: closes the pipes there are, kills and reaps the child
\* if one was started; the results of Kill and Wait are dropped. It touches
\* neither the healthy flag nor the request id.
StdioBackendClose(b) ==
    [proc |-> IF b.proc \in {"running", "exited"} THEN "closed" ELSE b.proc,
     err |-> NIL]

BackendClose(i) ==
    IF cfg[i].transport = "http" THEN HTTPBackendClose(BackendOf(i))
    ELSE StdioBackendClose(BackendOf(i))

\* A manager that closes only the backends it holds healthy.
Registered_Healthy == {registry[k] : k \in {n \in DOMAIN registry : healthy[registry[n]]}}

\* The backends the manager holds.
Registered == {registry[k] : k \in DOMAIN registry}

\* BackendManager.Close: Close on each backend of the map; a returned error is
\* printed and the loop goes on; the result is nil.
BackendManagerClose ==
    /\ proc' = [i \in DOMAIN proc |-> IF i \in Registered THEN BackendClose(i).proc ELSE proc[i]]
    /\ closing' = [n |-> closing.n + 1,
                   closed |-> [i \in DOMAIN proc |-> IF i \in Registered THEN 1 ELSE 0],
                   errs |-> {BackendClose(i).err : i \in Registered} \ {NIL},
                   err |-> NIL,
                   changed |-> \E i \in Registered : BackendClose(i).proc # proc[i]]
    /\ UNCHANGED <<cfg, healthy, reqID, panicked>>

\* Gateway.Close.
GatewayClose ==
    /\ gw = "gateway"
    /\ dpc = "idle"
    /\ ~panicked
    /\ closing.n < MaxCloses
    /\ BackendManagerClose
    /\ meta' = NoMeta
    /\ UNCHANGED <<hvars, cvars, gvars, dvars, svars, kvars, gstack, mu, rvars, validated>>

Next ==
    \/ NewGateway
    \/ GatewayInitialize
    \/ discoverInitialize
    \/ discoverTools
    \/ discoverResources
    \/ discoverPrompts
    \/ InitializeReturn
    \/ HandleListTools
    \/ HandleDescribeTool
    \/ HandleCallTool
    \/ GatewayClose

Spec == Init /\ [][Next]_vars

\* ------------------------------------------------------------------------
\* Properties of discovery.

\* DiscoverCapabilities has returned at least once and is not running.
Discovered == dpc \in {"return", "idle"} /\ runs >= 1

\* C7: after DiscoverCapabilities returns, every key that a registered
\* backend listed after a successful initialize is a key of the routing map
\* of its kind, and maps to that backend unless another backend listed the
\* same key.
C7_RoutesCoverListings ==
    Discovered =>
        \A nm \in DOMAIN registry : \A c \in Caps :
            LET i == registry[nm] IN
            i \in inited =>
                \A k \in listed[i][c] :
                    /\ k \in DOMAIN routingTable[c]
                    /\ \/ routingTable[c][k] = cfg[i].name
                       \/ \E j \in inited \ {i} : k \in listed[j][c]

\* Two backends listed git_commit and discovery returned with the tool
\* mapped to one of them.
C7_Witness ==
    /\ Discovered
    /\ \E i \in inited : \E j \in inited \ {i} :
        /\ "git_commit" \in listed[i]["tools"] \cap listed[j]["tools"]
        /\ routingTable["tools"]["git_commit"] = cfg[i].name
        /\ "read_file" \in listed[j]["tools"]
        /\ routingTable["tools"]["read_file"] = cfg[j].name

\* C8: after Gateway.Initialize, each capability flag is true exactly when
\* some backend whose initialize succeeded in that discovery advertised the
\* capability in its initialize result.
C8_FlagsAreDisjunction ==
    (dpc = "idle" /\ runs >= 1) =>
        \A c \in Caps : capabilities[c] <=> \E i \in inited : c \in remote[i].caps

\* One backend failed initialize, another advertised tools and resources.
C8_Witness ==
    /\ dpc = "idle"
    /\ runs >= 1
    /\ initfailed # {}
    /\ capabilities["tools"]
    /\ capabilities["resources"]
    /\ ~capabilities["prompts"]

\* C9: in every state, every value of the three routing maps is a name that
\* BackendManager.GetBackend finds in the registry.
C9_RoutesInRegistry ==
    \A c \in Caps : \A k \in DOMAIN routingTable[c] : routingTable[c][k] \in DOMAIN registry

\* Routes of two kinds exist.
C9_Witness ==
    /\ DOMAIN routingTable["tools"] # {}
    /\ DOMAIN routingTable["resources"] # {}
    /\ \E k \in DOMAIN routingTable["tools"] : registry[routingTable["tools"][k]] \in inited

\* C10: a backend whose Initialize failed during discovery set no flag, added
\* no route, is still in the registry and is unhealthy when discovery returns.
C10_FailedInitializeUnhealthy ==
    Discovered =>
        \A i \in initfailed :
            /\ \A c \in Caps : listed[i][c] = {}
            /\ \A c \in Caps : dcaps[c] => \E j \in inited : c \in remote[j].caps
            /\ \E nm \in DOMAIN registry : registry[nm] = i
            /\ ~IsHealthy(i)

\* ------------------------------------------------------------------------
\* SpecServer: the gateway of package server. Initialize connects the
\* configured backends and fills toolsMap; HandleMCPRequest then answers the
\* client's requests.

\* JSON-RPC error codes written by HandleMCPRequest and its handlers.
ParseError == -32700

InvalidRequest == -32600

MethodNotFound == -32601

InvalidParams == -32602

InternalError == -32603

\* fmt.Sprintf("%s/%s", group, name)
BackendKey(group, name) == group \o "/" \o name

BackendRef(i) == [GroupName |-> cfg[i].group, BackendName |-> cfg[i].name]

\* How connecting one backend goes: conn.Initialize fails, the List calls
\* fail, or all succeed.
ConnOutcomes == {"init_fail", "list_fail", "ok"}

\* The connections Initialize stores: supported transport, initialize succeeded.
Connected(outs) ==
    {i \in DOMAIN cfg : cfg[i].transport \in Transports /\ outs[i] # "init_fail"}

\* Gateway.toolsMap after the first n backends have been processed.
RECURSIVE ToolsMapAfter(_, _)
ToolsMapAfter(n, outs) ==
    IF n = 0 THEN srvToolsMap
    ELSE LET m == ToolsMapAfter(n - 1, outs) IN
         IF n \in Connected(outs) /\ outs[n] = "ok"
         THEN [t \in (DOMAIN m) \cup remote[n].tools |->
                  IF t \in remote[n].tools THEN BackendRef(n) ELSE m[t]]
         ELSE m

\* Gateway.resourcesMap (c = "resources") or Gateway.promptsMap (c = "prompts")
\* after the first n backends have been processed.
RECURSIVE RoutesAfter(_, _, _)
RoutesAfter(n, outs, c) ==
    IF n = 0 THEN srvRoutes[c]
    ELSE LET m == RoutesAfter(n - 1, outs, c) IN
         IF n \in Connected(outs) /\ outs[n] = "ok"
         THEN [k \in (DOMAIN m) \cup remote[n][c] |->
                  IF k \in remote[n][c] THEN BackendRef(n) ELSE m[k]]
         ELSE m

ServerInitialize ==
    /\ ~srvReady
    /\ \E outs \in [DOMAIN cfg -> ConnOutcomes] :
        /\ srvBackends' = srvBackends \cup
                {BackendKey(cfg[i].group, cfg[i].name) : i \in Connected(outs)}
        /\ srvToolsMap' = ToolsMapAfter(Cardinality(DOMAIN cfg), outs)
        /\ srvRoutes' = [c \in {"resources", "prompts"} |->
                            RoutesAfter(Cardinality(DOMAIN cfg), outs, c)]
    /\ srvReady' = TRUE
    /\ UNCHANGED <<bvars, hvars, cvars, gvars, dvars, mvars, kvars, gstack, mu, rvars, srvResp, srvCalls, srvCache>>

\* A client request: a body that is not JSON, a body without a method, an
\* unknown method, a list method, or tools/call, resources/read, prompts/get
\* with params that are not an object, without a name or URI, or with one.
\* A request carries one of two ids; the second is used with tools/list and
\* with resources/read of a URI only.
Requests ==
    {[method |-> m, params |-> "none", name |-> NIL, id |-> "id1"] :
        m \in {"unparsable", "missing", "bogus/method", "initialize", "tools/list",
               "resources/list", "prompts/list"}}
    \cup {[method |-> "tools/list", params |-> "none", name |-> NIL, id |-> "id2"]}
    \cup {[method |-> m, params |-> pr, name |-> NIL, id |-> "id1"] :
            m \in {"tools/call", "resources/read", "prompts/get"},
            pr \in {"none", "noname"}}
    \cup {[method |-> "tools/call", params |-> "named", name |-> n, id |-> "id1"] :
            n \in ToolNames}
    \cup {[method |-> "resources/read", params |-> "named", name |-> n, id |-> id] :
            n \in {"file://a", "file://a/b", "mem://x"}, id \in {"id1", "id2"}}
    \cup {[method |-> "prompts/get", params |-> "named", name |-> n, id |-> "id1"] :
            n \in {"greeting", "no_such_prompt"}}

\* A response written for req: its id member is request["id"].
Answer(req, code, forwarded) ==
    [method |-> req.method, name |-> req.name, code |-> code, forwarded |-> forwarded,
     caps |-> {}, listed |-> {}, id |-> req.id, asked |-> req.id]

\* Gateway.handleInitialize: the capabilities object is a literal with the
\* three keys.
handleInitialize(req) == [Answer(req, 0, FALSE) EXCEPT !.caps = {"tools", "resources", "prompts"}]

\* The capability a list method belongs to.
ListMethods == [tools |-> "tools/list", resources |-> "resources/list", prompts |-> "prompts/list"]

\* The backends Gateway.backends holds a connection for.
Connections == {i \in DOMAIN cfg : BackendKey(cfg[i].group, cfg[i].name) \in srvBackends}

\* The loop of handleToolsList, handleResourcesList and handlePromptsList: the
\* items of every connection whose List call succeeds.
Aggregate(c, answering) == UNION {remote[i][c] : i \in answering}

\* The three list handlers: the cached bytes while the cache holds an entry
\* that has not expired, else the aggregate, which is marshalled with the id
\* of this request and stored.
handleList(req, c, hit, answering) ==
    IF srvCache[c].set /\ hit
    THEN [Answer(req, 0, FALSE) EXCEPT !.listed = srvCache[c].items, !.id = srvCache[c].id]
    ELSE [Answer(req, 0, FALSE) EXCEPT !.listed = Aggregate(c, answering)]

\* A handleToolsCall that answers a failed backend call with -32602.
handleToolsCall_CallInvalidParams(req, call) ==
    IF req.params = "none" THEN Answer(req, InvalidParams, FALSE)
    ELSE IF req.params = "noname" THEN Answer(req, InvalidParams, FALSE)
    ELSE IF req.name \notin DOMAIN srvToolsMap THEN Answer(req, InvalidParams, FALSE)
    ELSE IF BackendKey(srvToolsMap[req.name].GroupName, srvToolsMap[req.name].BackendName)
                \notin srvBackends
    THEN Answer(req, InternalError, FALSE)
    ELSE IF call = "error" THEN Answer(req, InvalidParams, TRUE)
    ELSE Answer(req, 0, TRUE)

\* Gateway.handleToolsCall; call is how backend.CallTool goes when it is made.
handleToolsCall(req, call) ==
    IF req.params = "none" THEN Answer(req, InvalidParams, FALSE)
    ELSE IF req.params = "noname" THEN Answer(req, InvalidParams, FALSE)
    ELSE IF req.name \notin DOMAIN srvToolsMap THEN Answer(req, InvalidParams, FALSE)
    ELSE IF BackendKey(srvToolsMap[req.name].GroupName, srvToolsMap[req.name].BackendName)
                \notin srvBackends
    THEN Answer(req, InternalError, FALSE)
    ELSE IF call = "error" THEN Answer(req, InternalError, TRUE)
    ELSE Answer(req, 0, TRUE)

\* Gateway.handlePromptsGet; call is how backend.GetPrompt goes.
handlePromptsGet(req, call) ==
    LET map == srvRoutes["prompts"] IN
    IF req.params = "none" THEN Answer(req, InvalidParams, FALSE)
    ELSE IF req.params = "noname" THEN Answer(req, InvalidParams, FALSE)
    ELSE IF req.name \notin DOMAIN map THEN Answer(req, InvalidParams, FALSE)
    ELSE IF BackendKey(map[req.name].GroupName, map[req.name].BackendName) \notin srvBackends
    THEN Answer(req, InternalError, FALSE)
    ELSE IF call = "error" THEN Answer(req, InternalError, TRUE)
    ELSE Answer(req, 0, TRUE)

\* Gateway.findBackendForResource: the exact entry, else the entry of a
\* pattern that, without a trailing "*", is a prefix of the URI; the map is
\* ranged over in any order. The empty set stands for BackendRef{}.
findBackendForResource(uri) ==
    LET map == srvRoutes["resources"]
        TrimSuffix(p) == IF Len(p) > 0 /\ SubSeq(p, Len(p), Len(p)) = "*"
                         THEN SubSeq(p, 1, Len(p) - 1) ELSE p
        HasPrefix(u, p) == Len(p) <= Len(u) /\ SubSeq(u, 1, Len(p)) = p
    IN  IF uri \in DOMAIN map THEN {map[uri]}
        ELSE {map[p] : p \in {q \in DOMAIN map : HasPrefix(uri, TrimSuffix(q))}}

\* Gateway.handleResourcesRead; refs holds what findBackendForResource
\* returned, call is how backend.ReadResource goes.
handleResourcesRead(req, call, refs) ==
    IF req.params = "none" THEN Answer(req, InvalidParams, FALSE)
    ELSE IF req.params = "noname" THEN Answer(req, InvalidParams, FALSE)
    ELSE IF refs = {} THEN Answer(req, InvalidParams, FALSE)
    ELSE LET ref == CHOOSE r \in refs : TRUE IN
         IF BackendKey(ref.GroupName, ref.BackendName) \notin srvBackends
         THEN Answer(req, InternalError, FALSE)
         ELSE IF call = "error" THEN Answer(req, InternalError, TRUE)
         ELSE Answer(req, 0, TRUE)

MaxCalls == 2

HandleMCPRequest ==
    /\ srvReady
    /\ \E req \in Requests :
        LET lists == {c \in Caps : ListMethods[c] = req.method}
            routed == req.method \in {"tools/call", "resources/read", "prompts/get"}
            found == IF req.method = "resources/read" /\ req.params = "named"
                     THEN findBackendForResource(req.name) ELSE {}
        IN
        \E call \in (IF routed THEN {"ok", "error"} ELSE {"ok"}) :
        \E hit \in (IF lists # {} THEN BOOLEAN ELSE {FALSE}) :
        \E answering \in (IF lists # {} THEN SUBSET Connections ELSE {{}}) :
        \E ref \in (IF found = {} THEN {NIL} ELSE found) :
        LET a == CASE req.method = "unparsable" ->
                        [Answer(req, ParseError, FALSE) EXCEPT !.id = NIL]
                   [] req.method = "missing" -> Answer(req, InvalidRequest, FALSE)
                   [] req.method = "initialize" -> handleInitialize(req)
                   [] lists # {} -> handleList(req, CHOOSE c \in lists : TRUE, hit, answering)
                   [] req.method = "tools/call" -> handleToolsCall(req, call)
                   [] req.method = "resources/read" ->
                        handleResourcesRead(req, call, IF found = {} THEN {} ELSE {ref})
                   [] req.method = "prompts/get" ->
                        handlePromptsGet(req, call)
                   [] OTHER -> Answer(req, MethodNotFound, FALSE)
        IN  /\ a.forwarded => srvCalls < MaxCalls
            /\ srvResp' = a
            /\ srvCalls' = IF a.forwarded THEN srvCalls + 1 ELSE srvCalls
            /\ srvCache' = [c \in Caps |->
                    IF c \in lists
                    THEN [set |-> TRUE, items |-> a.listed, id |-> a.id]
                    ELSE srvCache[c]]
    /\ UNCHANGED <<bvars, hvars, cvars, gvars, dvars, mvars, kvars, gstack, mu, rvars,
                   srvBackends, srvToolsMap, srvReady, srvRoutes>>

NextServer ==
    \/ ServerInitialize
    \/ HandleMCPRequest

SpecServer == Init /\ [][NextServer]_vars

\* C1: a tools/call whose name is not a meta-tool is answered with error
\* -32601 and no request is sent to a backend, whether or not the name is a
\* key of the tools map.
C1_DirectCallRejected ==
    (srvResp.method = "tools/call" /\ srvResp.name # NIL /\ srvResp.name \notin MetaTools)
        => (srvResp.code = MethodNotFound /\ ~srvResp.forwarded)

\* C21: the tools advertised to clients are the three meta-tools when some
\* backend tool is known and none otherwise; no backend tool name is
\* advertised.
C21_OnlyMetaToolsAdvertised ==
    (srvResp.method = "tools/list" /\ srvResp.code = 0)
        => /\ srvResp.listed \in {MetaTools, {}}
           /\ srvResp.listed \cap UNION {remote[i].tools : i \in DOMAIN remote} = {}

\* C22: a capability no backend reported is absent from the answer to
\* initialize, and its list method and its call method are answered with
\* error -32601.
C22_UnreportedCapabilityAbsent ==
    \A c \in Caps :
        (srvReady /\ \A i \in DOMAIN remote : c \notin remote[i].caps)
            => /\ srvResp.method = "initialize" => c \notin srvResp.caps
               /\ srvResp.method = ListMethods[c] => srvResp.code = MethodNotFound
               /\ (c = "tools" /\ srvResp.method = "tools/call") => srvResp.code = MethodNotFound

\* ------------------------------------------------------------------------
\* The names of the meta-tools (package gateway): specification SpecNames.

\* Tool names a caller may pass: the meta-tools, backend tools, the empty
\* string and near misses of the meta-tool names.
CheckedNames ==
    {"list_tools", "describe_tool", "call_tool", "", "echo", "add", "random_tool",
     "git_commit", "read_file", "List_Tools", "list_tools ", " list_tools", "list-tools",
     "listtools", "list_tool", "describe_tools", "call_tool2", "call", "tools/list",
     "tools/call", "CALL_TOOL", "describe_tool,call_tool"}

\* A check that does not know call_tool.
IsMetaTool_NoCall(toolName) == toolName = "list_tools" \/ toolName = "describe_tool"

IsMetaTool(toolName) ==
    toolName = "list_tools" \/ toolName = "describe_tool" \/ toolName = "call_tool"

\* The switch of ValidateMetaToolCall and the pair it returns.
ValidateMetaToolCall(toolName) ==
    CASE toolName = "list_tools" \/ toolName = "describe_tool" \/ toolName = "call_tool" ->
            [ok |-> TRUE, err |-> NIL]
      [] OTHER -> [ok |-> FALSE, err |-> "direct tool calls are prohibited"]

CallIsMetaTool ==
    /\ \E x \in CheckedNames :
        validated' = [fn |-> "IsMetaTool", name |-> x, ok |-> IsMetaTool(x), err |-> NIL]
    /\ UNCHANGED <<bvars, hvars, cvars, gvars, dvars, svars, kvars, gstack, mu, rvars, meta, closing>>

CallValidateMetaToolCall ==
    /\ \E x \in CheckedNames :
        validated' = [fn |-> "ValidateMetaToolCall", name |-> x,
                      ok |-> ValidateMetaToolCall(x).ok, err |-> ValidateMetaToolCall(x).err]
    /\ UNCHANGED <<bvars, hvars, cvars, gvars, dvars, svars, kvars, gstack, mu, rvars, meta, closing>>

NextNames ==
    \/ CallIsMetaTool
    \/ CallValidateMetaToolCall

SpecNames == Init /\ [][NextNames]_vars

\* C16: IsMetaTool is true exactly for list_tools, describe_tool and call_tool;
\* ValidateMetaToolCall returns (true, no error) for these names and
\* (false, an error) for every other, the empty string included.
C16_MetaToolNames ==
    /\ validated.fn = "IsMetaTool" =>
        (validated.ok <=> validated.name \in {"list_tools", "describe_tool", "call_tool"})
    /\ validated.fn = "ValidateMetaToolCall" =>
        /\ validated.ok <=> validated.name \in {"list_tools", "describe_tool", "call_tool"}
        /\ validated.ok <=> validated.err = NIL

\* The empty name was refused with an error.
C16_Witness ==
    /\ validated.fn = "ValidateMetaToolCall"
    /\ validated.name = ""
    /\ ~validated.ok
    /\ validated.err # NIL

\* ------------------------------------------------------------------------
\* Properties of the meta-tools.

\* FindToolBackend, then GetBackend: the backend that owns tool `name` in this
\* state, 0 when the routing table or the registry has no entry for it.
Owner(name) ==
    IF name \in DOMAIN routingTable["tools"] /\ routingTable["tools"][name] \in DOMAIN registry
    THEN registry[routingTable["tools"][name]] ELSE 0

\* C11: call_tool for a routed tool whose owning backend is healthy sends
\* exactly one request, a tools/call with the tool name and the given
\* arguments, to the owning backend, and returns the tool result the remote
\* gave as it is.
C11_CallToolForwards ==
    [][(meta' # meta /\ meta'.tool = "call_tool"
            /\ Owner(meta'.name) # 0 /\ healthy[Owner(meta'.name)])
        => /\ meta'.sent = << [to |-> Owner(meta'.name), method |-> "tools/call",
                               name |-> meta'.name, args |-> meta'.args] >>
           /\ meta'.answer.form = "tool" =>
                /\ meta'.err = NIL
                /\ meta'.data = meta'.answer
                /\ meta'.isError = ("isError" \in meta'.answer.items)]_vars

\* git_commit is listed by two backends; call_tool sent it with arguments to
\* its owner and returned the remote's result.
C11_Witness ==
    /\ meta.tool = "call_tool"
    /\ meta.name = "git_commit"
    /\ meta.args = "{message: fix}"
    /\ Cardinality(DOMAIN registry) = 2
    /\ meta.sent # << >>
    /\ meta.data = [form |-> "tool", items |-> {"content"}]

\* C12: call_tool for a tool whose owning backend is unhealthy returns the
\* error result "backend is not healthy" and sends no request: no backend
\* changes.
C12_UnhealthyNotCalled ==
    [][(meta' # meta /\ meta'.tool = "call_tool"
            /\ Owner(meta'.name) # 0 /\ ~healthy[Owner(meta'.name)])
        => /\ meta'.sent = << >>
           /\ meta'.isError
           /\ meta'.text = "backend is not healthy"
           /\ meta'.err # NIL
           /\ bvars' = bvars]_vars

\* read_file is routed to a backend that lost its health after listing its
\* tools, and call_tool refused to call it.
C12_Witness ==
    /\ meta.tool = "call_tool"
    /\ meta.name = "read_file"
    /\ Owner("read_file") # 0
    /\ ~healthy[Owner("read_file")]
    /\ meta.text = "backend is not healthy"
    /\ meta.sent = << >>

C14_Unreachable ==
    {"HTTP request failed", "HTTP request failed with status",
     "failed to write to stdin", "failed to decode response"}

\* C14: a call_tool that reaches a backend which has become unreachable since
\* discovery returns a result marked isError, and the backend is unhealthy
\* afterwards.
C14_DownBackendUnhealthy ==
    [][(meta' # meta /\ meta'.tool = "call_tool" /\ meta'.sent # << >>
            /\ meta'.err \in C14_Unreachable)
        => /\ Owner(meta'.name) # 0
           /\ healthy[Owner(meta'.name)]
           /\ meta'.isError
           /\ ~healthy'[Owner(meta'.name)]]_vars

\* git_commit was discovered on an HTTP backend that then refused the
\* connection of call_tool.
C14_Witness ==
    /\ meta.tool = "call_tool"
    /\ meta.name = "git_commit"
    /\ meta.err = "HTTP request failed"
    /\ meta.isError
    /\ Owner("git_commit") # 0
    /\ ~healthy[Owner("git_commit")]

C17_Released == \A i \in Registered : proc[i] \notin {"running", "exited"}

\* C17: every Close of the gateway, and with it every Close of an HTTP or
\* stdio backend, started or not, returns no error; the state it leaves is one
\* in which nothing is left to release, and a Close in such a state changes
\* no state.
C17_CloseIdempotent ==
    [][closing' # closing
        => /\ closing'.err = NIL
           /\ closing'.errs = {}
           /\ C17_Released'
           /\ healthy' = healthy /\ reqID' = reqID /\ gvars' = gvars /\ dvars' = dvars
           /\ closing'.changed = (bvars' # bvars)
           /\ (closing.n >= 1 /\ C17_Released) => (~closing'.changed /\ bvars' = bvars)]_vars

\* A started child was closed by the first Close and the second found nothing
\* to do.
C17_Witness ==
    /\ closing.n = 2
    /\ ~closing.changed
    /\ closing.err = NIL
    /\ \E i \in Registered : cfg[i].transport = "stdio" /\ proc[i] = "closed"
    /\ \E i \in Registered : cfg[i].transport = "http"

C19_EmptyRegistry ==
    (gw = "gateway" /\ DOMAIN registry = {} /\ runs >= 1 /\ dpc = "idle")
        => /\ ~panicked
           /\ server.created
           /\ server.tools = {}
           /\ \A c \in Caps : ~capabilities[c] /\ DOMAIN routingTable[c] = {}

\* Initialize has returned twice on a gateway built from a configuration
\* without backends.
C19_Witness ==
    /\ gw = "gateway"
    /\ cfg = << >>
    /\ DOMAIN registry = {}
    /\ runs = 2
    /\ dpc = "idle"
    /\ server.created

\* C20: NewGateway fails, leaving no gateway, exactly when some configured
\* backend has a transport other than http and stdio; otherwise the registry
\* of the gateway holds one backend for every configured backend entry, of the
\* configured transport.
C20_OneBackendPerEntry ==
    gw # "none" =>
        /\ gw = "error" <=> \E i \in DOMAIN cfg : cfg[i].transport \notin {"http", "stdio"}
        /\ gw = "error" => DOMAIN registry = {}
        /\ gw = "gateway" =>
            /\ Cardinality(DOMAIN registry) = Len(cfg)
            /\ \A i \in DOMAIN cfg : \E k \in DOMAIN registry :
                /\ registry[k] = i
                /\ k = cfg[i].name
                /\ cfg[registry[k]].transport = cfg[i].transport

\* C23: the lifecycle is Constructed, Serving, Closed, or Constructed, Failed;
\* once the gateway is closed or its construction has failed, no step
\* performs discovery, contacts a backend or creates the client-facing server
\* again.
C23_ClosedIsTerminal ==
    [][(closing.n >= 1 \/ gw = "error")
        => /\ dvars' = dvars
           /\ healthy' = healthy /\ reqID' = reqID
           /\ gvars' = gvars]_vars

\* C29: when a listing request of a backend fails during discovery, the
\* routes inserted so far stay as they are, discovery goes on with the next
\* capability that backend advertised, or with the next backend of the
\* snapshot, or returns when there is none; DiscoverCapabilities then returns
\* to Gateway.Initialize without an error, every backend of the snapshot
\* having been initialized.
C29_DiscoveryGoesOn ==
    /\ [][\A c \in Caps :
            (dpc = c /\ listfailed' # listfailed) =>
                /\ ~panicked'
                /\ routingTable' = routingTable
                /\ IF StageAfter(c, dinit) \in Caps
                   THEN dpc' = StageAfter(c, dinit) /\ di' = di
                   ELSE IF di < Len(dsnap)
                   THEN dpc' = "initialize" /\ di' = di + 1
                   ELSE dpc' = "return" /\ di' = di]_vars
    /\ []((dpc = "return" /\ listfailed # {}) =>
            /\ ENABLED InitializeReturn
            /\ \A n \in DOMAIN dsnap : dsnap[n] \in inited \cup initfailed)

\* The first backend of the snapshot listed its tools and its resources
\* listing failed; the second backend's tools were listed afterwards, the
\* first backend's tool routes are in place and Initialize has returned.
C29_Witness ==
    /\ dpc = "idle"
    /\ server.created
    /\ Len(dsnap) = 2
    /\ listed[dsnap[1]]["tools"] # {}
    /\ \A k \in listed[dsnap[1]]["tools"] :
        k \in DOMAIN routingTable["tools"] /\ routingTable["tools"][k] = RouteTo(dsnap[1])
    /\ <<dsnap[1], "resources">> \in listfailed
    /\ listed[dsnap[2]]["tools"] # {}

\* C30: once Gateway.Initialize has returned, no step changes the three
\* routing maps or the capability flags.
C30_FrozenAfterInitialize ==
    [][server.created => (routingTable' = routingTable /\ capabilities' = capabilities)]_vars

\* C31: discovery is a barrier. The client-facing server does not exist
\* until the first Initialize has returned, and a client request is
\* dispatched to a meta-tool, and through it to a backend, only when the
\* server exists and every backend of the snapshot has been through its
\* initialize.
C31_DiscoveryIsBarrier ==
    /\ []((runs = 0 \/ (runs = 1 /\ dpc # "idle")) => (~server.created /\ meta = NoMeta))
    /\ [][(meta' # meta /\ meta'.tool # "none") =>
            /\ server.created
            /\ dpc = "idle"
            /\ \A n \in DOMAIN dsnap : dsnap[n] \in inited \cup initfailed]_vars

\* Initialize has returned once for a snapshot of two backends and a
\* call_tool of a client has been sent to a backend.
C31_Witness ==
    /\ runs = 1
    /\ server.created
    /\ Len(dsnap) = 2
    /\ inited = {1, 2}
    /\ meta.tool = "call_tool"
    /\ meta.sent # << >>

\* C32: when two backends of one discovery run both listed a tool name,
\* the name maps, once discovery has returned, to the one whose listing was
\* processed last, and the log holds a collision warning for the name, that
\* is a line other than the "Mapped" line written for every tool.
C32_LastWriterWinsWithWarning ==
    (dpc = "idle" /\ server.created) =>
        \A a, b \in DOMAIN dsnap :
            (a < b /\ dsnap[a] \in inited /\ dsnap[b] \in inited) =>
                \A k \in listed[dsnap[a]]["tools"] \cap listed[dsnap[b]]["tools"] :
                    /\ routingTable["tools"][k] = RouteTo(dsnap[b])
                    /\ \E l \in logged : l.msg # "Mapped" /\ l.kind = "tools" /\ l.key = k

C34_ErrorCodes ==
    LET a == srvResp
        routed == a.method \in {"tools/call", "resources/read", "prompts/get"}
    IN
    /\ a.method = "unparsable" => (a.code = ParseError /\ a.id = NIL)
    /\ a.method = "missing" => a.code = InvalidRequest
    /\ a.method = "bogus/method" => a.code = MethodNotFound
    /\ (routed /\ a.name = NIL) => (a.code = InvalidParams /\ ~a.forwarded)
    /\ (routed /\ a.forwarded /\ a.code # 0) => a.code = InternalError
    /\ (routed /\ ~a.forwarded) => a.code \in {InvalidParams, InternalError}
    /\ \A t \in DOMAIN srvToolsMap :
        (a.method = "tools/call" /\ a.name = t /\
         BackendKey(srvToolsMap[t].GroupName, srvToolsMap[t].BackendName) \notin srvBackends)
            => a.code = InternalError
    /\ (a.code # 0 /\ a.method # "unparsable") => a.id = a.asked

\* A resources/read with id2 was forwarded, the backend call failed and the
\* answer is -32603 with that id.
C34_Witness ==
    /\ srvResp.method = "resources/read"
    /\ srvResp.forwarded
    /\ srvResp.code = InternalError
    /\ srvResp.asked = "id2"
    /\ srvResp.id = "id2"

\* C35: every answer to tools/list, resources/list and prompts/list carries
\* the id of the request it answers, whether the listing was aggregated for
\* this request or taken from the cache.
C35_ListAnswerHasRequestID ==
    (\E c \in Caps : srvResp.method = ListMethods[c]) => srvResp.id = srvResp.asked

\* C36: the health flag of a backend goes from false to true only in a
\* describe_tool sent to it or in a listing request of the discovery run that
\* took it into its snapshot; call_tool sends nothing to an unhealthy backend
\* and leaves it unhealthy, and a discovery run neither takes an unhealthy
\* backend into its snapshot nor initializes one.
C36_HealthRecovery ==
    /\ [][\A i \in DOMAIN healthy :
            /\ (i \in DOMAIN healthy' /\ ~healthy[i] /\ healthy'[i]) =>
                \/ /\ meta' # meta
                   /\ meta'.tool = "describe_tool"
                   /\ meta'.sent # << >>
                   /\ meta'.sent[1].to = i
                \/ /\ dpc \in Caps
                   /\ dsnap[di] = i
            /\ (meta' # meta /\ meta'.tool = "call_tool" /\ ~healthy[i]) =>
                /\ ~healthy'[i]
                /\ reqID'[i] = reqID[i]
                /\ \A n \in DOMAIN meta'.sent : meta'.sent[n].to # i
            /\ (dpc = "idle" /\ dpc' # "idle" /\ ~healthy[i]) =>
                \A n \in DOMAIN dsnap' : dsnap'[n] # i]_vars
    /\ [](dpc = "initialize" => healthy[dsnap[di]])

\* An HTTP backend became unhealthy, a second discovery run left it out of
\* its snapshot, and a call_tool for one of its tools was refused without a
\* request: the backend is still unhealthy.
C36_Witness ==
    /\ runs = 2
    /\ dpc = "idle"
    /\ meta.tool = "call_tool"
    /\ meta.sent = << >>
    /\ meta.name \in DOMAIN routingTable["tools"]
    /\ routingTable["tools"][meta.name] \in DOMAIN registry
    /\ LET i == registry[routingTable["tools"][meta.name]] IN
        /\ cfg[i].transport = "http"
        /\ ~healthy[i]
        /\ \A n \in DOMAIN dsnap : dsnap[n] # i

\* C37: when the start of the child failed in an Initialize, a later
\* Initialize on the backend attempts the start again: it leaves a running
\* child or returns the error of a failed start.
C37_FailedStartIsRetried ==
    [][(/\ last' # last
        /\ last'.op = "Initialize"
        /\ cfg[last'.i].transport = "stdio"
        /\ proc[last'.i] \in {"dead", "nopipe"})
        => \/ proc'[last'.i] = "running"
           \/ last'.err \in {"failed to create pipe", "failed to start command"}]_vars

\* ------------------------------------------------------------------------
\* SpecConfig: LoadConfig validates the configuration read from the file
\* (package config); NewGateway is called with a configuration it accepted.

MaxPort == 65535

Ports == {0 - 1, 0, 1, 8080, MaxPort, MaxPort + 1}

\* A value of Group.Backends.
BackendEntry(name, transport, endpoint, command) ==
    [name |-> name, transport |-> transport, endpoint |-> endpoint, command |-> command]

\* Backend entries: well-formed ones, and one for each defect validation
\* looks for.
BackendEntries ==
    { BackendEntry("b1", "http", "http://x", ""),
      BackendEntry("b2", "http", "http://x", ""),
      BackendEntry("b1", "stdio", "", "cmd"),
      BackendEntry("", "http", "http://x", ""),
      BackendEntry("b1", "ws", "http://x", "cmd"),
      BackendEntry("b1", "http", "", "cmd"),
      BackendEntry("b1", "stdio", "http://x", "") }

\* Groups: a name, and a map of at most two entries.
Groups ==
    {[name |-> n, backends |-> b] :
        n \in {"", "g1", "g2"},
        b \in UNION {[K -> BackendEntries] : K \in {{}, {"k1"}, {"k1", "k2"}}}}

\* The configurations read: every port and endpoint with one good group, and
\* every list of at most two groups with a good port and endpoint.
Configs ==
    {[port |-> p, endpoint |-> e,
      groups |-> << [name |-> "g1",
                     backends |-> [k \in {"k1"} |-> BackendEntry("b1", "stdio", "", "cmd")]] >>] :
        p \in Ports, e \in {"", "/mcp"}}
    \cup {[port |-> 8080, endpoint |-> "/mcp", groups |-> gs] :
            gs \in {<< >>} \cup {<< g >> : g \in Groups}
                   \cup {<< g, h >> : g \in Groups,
                            h \in {x \in Groups : x.name # "" /\ DOMAIN x.backends # {"k1", "k2"}}}}

\* A validation that does not ask a stdio backend for its command.
validateBackend_AnyCommand(b) ==
    CASE b.transport = "stdio" -> NIL
      [] b.transport = "http" -> IF b.endpoint = "" THEN "endpoint is required" ELSE NIL
      [] OTHER -> "unsupported transport type"

validateBackend(b) ==
    CASE b.transport = "stdio" -> IF b.command = "" THEN "command is required" ELSE NIL
      [] b.transport = "http" -> IF b.endpoint = "" THEN "endpoint is required" ELSE NIL
      [] OTHER -> "unsupported transport type"

\* The loop of validateConfig over the backends of one group, in the order
\* the map yields its keys; seen is backendNames.
RECURSIVE validateBackends(_, _, _)
validateBackends(backends, order, seen) ==
    IF order = << >> THEN NIL
    ELSE LET b == backends[Head(order)] IN
         IF b.name = "" THEN "backend name cannot be empty"
         ELSE IF b.name \in seen THEN "duplicate backend name"
         ELSE IF validateBackend(b) # NIL THEN validateBackend(b)
         ELSE validateBackends(backends, Tail(order), seen \cup {b.name})

\* The loop of validateConfig over the groups from group g on; seen is
\* groupNames.
RECURSIVE validateGroups(_, _, _, _)
validateGroups(groups, orders, g, seen) ==
    IF g > Len(groups) THEN NIL
    ELSE IF groups[g].name = "" THEN "group name cannot be empty"
    ELSE IF groups[g].name \in seen THEN "duplicate group name"
    ELSE IF DOMAIN groups[g].backends = {} THEN "group must have at least one backend"
    ELSE IF validateBackends(groups[g].backends, orders[g], {}) # NIL
    THEN validateBackends(groups[g].backends, orders[g], {})
    ELSE validateGroups(groups, orders, g + 1, seen \cup {groups[g].name})

validateConfig(c, orders) ==
    IF c.port <= 0 \/ c.port > MaxPort THEN "invalid port number"
    ELSE IF c.endpoint = "" THEN "gateway endpoint cannot be empty"
    ELSE IF Len(c.groups) = 0 THEN "at least one group must be defined"
    ELSE validateGroups(c.groups, orders, 1, {})

\* The orders in which one pass over the groups can yield the keys of each
\* group's map.
MapOrders(c) ==
    {o \in [DOMAIN c.groups -> UNION {Orders(DOMAIN c.groups[g].backends) : g \in DOMAIN c.groups}] :
        \A g \in DOMAIN c.groups : o[g] \in Orders(DOMAIN c.groups[g].backends)}

\* The backends in the order the two loops of NewGateway visit them.
RECURSIVE Visited(_, _, _)
Visited(groups, orders, g) ==
    IF g > Len(groups) THEN << >>
    ELSE [k \in 1..Len(orders[g]) |->
            Backend(groups[g].backends[orders[g][k]].name,
                    groups[g].backends[orders[g][k]].transport, groups[g].name)]
         \o Visited(groups, orders, g + 1)

\* LoadConfig from validateConfig on: an error, or the configuration that
\* main passes to NewGateway.
LoadConfig ==
    /\ gw = "none"
    /\ valid = "none"
    /\ \E orders \in MapOrders(conf) : valid' = validateConfig(conf, orders)
    /\ IF valid' = NIL
       THEN \E orders \in MapOrders(conf) : cfg' = Visited(conf.groups, orders, 1)
       ELSE UNCHANGED cfg
    /\ UNCHANGED <<healthy, proc, reqID, panicked, hvars, cvars, dvars, svars, mvars, conf, gstack, mu, rvars>>
    /\ UNCHANGED gvars

InitConfig ==
    /\ conf \in Configs
    /\ valid = "none"
    /\ InitBackends(<< >>)
    /\ InitCallers
    /\ NoGateway
    /\ ServerNewGateway
    /\ NoLocks
    /\ NoClients

\* main: NewGateway on the configuration LoadConfig returned.
NewGatewayLoaded ==
    /\ valid = NIL
    /\ NewGateway

NextConfig ==
    \/ LoadConfig
    \/ NewGatewayLoaded

SpecConfig == InitConfig /\ [][NextConfig]_vars

\* C25: a configuration that validation accepts has pairwise distinct backend
\* names over all its groups, and the registry NewGateway builds from it has
\* as many backends as the configuration has entries.
C25_AcceptedNamesUnique ==
    valid = NIL =>
        /\ \A i, j \in DOMAIN cfg : i # j => cfg[i].name # cfg[j].name
        /\ gw = "gateway" => Cardinality(DOMAIN registry) = Len(cfg)

\* The defects the claim lists: the port, an empty group or backend name, an
\* http backend without endpoint, a stdio backend without command, another
\* transport.
C26_Defect ==
    \/ conf.port < 1 \/ conf.port > 65535
    \/ \E g \in DOMAIN conf.groups :
        \/ conf.groups[g].name = ""
        \/ \E k \in DOMAIN conf.groups[g].backends :
            LET b == conf.groups[g].backends[k] IN
            \/ b.name = ""
            \/ b.transport = "http" /\ b.endpoint = ""
            \/ b.transport = "stdio" /\ b.command = ""
            \/ b.transport \notin {"http", "stdio"}

\* What validation rejects besides: an empty gateway endpoint, no group, a
\* repeated group name, a group without backends, a backend name repeated
\* inside one group.
C26_Rejected ==
    \/ conf.endpoint = ""
    \/ Len(conf.groups) = 0
    \/ \E g, h \in DOMAIN conf.groups : g # h /\ conf.groups[g].name = conf.groups[h].name
    \/ \E g \in DOMAIN conf.groups :
        \/ DOMAIN conf.groups[g].backends = {}
        \/ \E k, l \in DOMAIN conf.groups[g].backends :
            k # l /\ conf.groups[g].backends[k].name = conf.groups[g].backends[l].name

\* C26 as stated: validation rejects every configuration with one of the
\* listed defects and accepts every configuration that has none of them and
\* at least one group that is not empty.
C26_ValidationAsStated ==
    valid # "none" =>
        /\ C26_Defect => valid # NIL
        /\ (~C26_Defect /\ \E g \in DOMAIN conf.groups : DOMAIN conf.groups[g].backends # {})
                => valid = NIL

\* C26 as amended: validation rejects every configuration with one of the
\* listed defects; it accepts a configuration exactly when it has none of
\* them, the gateway endpoint is not empty, there is a group, group names are
\* distinct, no group is empty and backend names are distinct inside each
\* group.
C26_Validation ==
    valid # "none" =>
        /\ C26_Defect => valid # NIL
        /\ valid = NIL <=> (~C26_Defect /\ ~C26_Rejected)

\* A configuration of two groups with two backends was accepted and a
\* gateway built from it.
C26_Witness ==
    /\ valid = NIL
    /\ ~C26_Defect
    /\ Len(conf.groups) = 2
    /\ DOMAIN conf.groups[1].backends = {"k1", "k2"}
    /\ gw = "gateway"

\* ---------------------------------------------------------------------
\* The locks of package gateway: BackendManager.mu (mutex 0) and the mu of
\* each backend (mutex i for cfg[i]).  A call is the sequence of lock steps
\* its code takes; the data the calls read and write is left to SpecBackend
\* and SpecConc.

Goroutines == {"g1", "g2", "g3"}

\* sendJSONRPC with the backend's lock kept until the remote has answered.
LockScript_HoldWhileWaiting(call) ==
    LET ins(do, m) == [do |-> do, m |-> m]
        i == call.i
        stdio(b) == cfg[b].transport = "stdio"
        locked(b) == << ins("Lock", b), ins("Unlock", b) >>
        read(b) == << ins("RLock", b), ins("RUnlock", b) >>
        closed(b, started) ==
            IF ~stdio(b) THEN << >>
            ELSE IF started THEN << ins("Lock", b), ins("Wait", b), ins("Unlock", b) >>
            ELSE locked(b)
        send == IF call.out = "write_fail" /\ stdio(i)
                THEN locked(i) \o locked(i)
                ELSE << ins("Lock", i), ins("Remote", i), ins("Unlock", i) >>
                     \o (IF call.out = "rpc_error" THEN << >> ELSE locked(i))
        RECURSIVE Each(_, _)
        Each(f, n) == IF n > Len(call.ord) THEN << >>
                      ELSE f[call.ord[n]] \o Each(f, n + 1)
    IN  CASE call.op = "GetAllBackends" -> read(0)
          [] call.op = "GetHealthyBackends" ->
                << ins("RLock", 0) >> \o Each([b \in DOMAIN cfg |-> read(b)], 1)
                \o << ins("RUnlock", 0) >>
          [] call.op = "BackendManager.Close" ->
                << ins("Lock", 0) >> \o Each([b \in DOMAIN cfg |-> closed(b, TRUE)], 1)
                \o << ins("Unlock", 0) >>
          [] call.op = "IsHealthy" -> read(i)
          [] call.op = "Close" -> closed(i, call.out # "no_process")
          [] call.op = "SendRequest" -> send
          [] call.op = "Initialize" ->
                (IF stdio(i) THEN locked(i) ELSE << >>)
                \o (IF stdio(i) /\ call.out = "start_fail" THEN << >>
                    ELSE send \o (IF call.out = "bad_result" THEN << >> ELSE locked(i)))

\* The lock steps of a call, in the order its code takes them: Lock and
\* Unlock, RLock and RUnlock of mutex m, "Remote" where the call waits for the
\* remote to answer, "Wait" where Close waits for the killed child to exit.
\* start, setHealthy and the id step of the stdio sendJSONRPC lock the backend
\* for their body; IsHealthy read-locks it; the manager's calls keep
\* BackendManager.mu while they visit the backends in the map's order.
LockScript(call) ==
    LET ins(do, m) == [do |-> do, m |-> m]
        i == call.i
        stdio(b) == cfg[b].transport = "stdio"
        locked(b) == << ins("Lock", b), ins("Unlock", b) >>
        read(b) == << ins("RLock", b), ins("RUnlock", b) >>
        closed(b, started) ==
            IF ~stdio(b) THEN << >>
            ELSE IF started THEN << ins("Lock", b), ins("Wait", b), ins("Unlock", b) >>
            ELSE locked(b)
        send == IF call.out = "write_fail" /\ stdio(i)
                THEN locked(i) \o locked(i)
                ELSE (IF stdio(i) THEN locked(i) ELSE << >>)
                     \o << ins("Remote", i) >>
                     \o (IF call.out = "rpc_error" THEN << >> ELSE locked(i))
        RECURSIVE Each(_, _)
        Each(f, n) == IF n > Len(call.ord) THEN << >>
                      ELSE f[call.ord[n]] \o Each(f, n + 1)
    IN  CASE call.op = "GetAllBackends" -> read(0)
          [] call.op = "GetHealthyBackends" ->
                << ins("RLock", 0) >> \o Each([b \in DOMAIN cfg |-> read(b)], 1)
                \o << ins("RUnlock", 0) >>
          [] call.op = "BackendManager.Close" ->
                << ins("Lock", 0) >> \o Each([b \in DOMAIN cfg |-> closed(b, TRUE)], 1)
                \o << ins("Unlock", 0) >>
          [] call.op = "IsHealthy" -> read(i)
          [] call.op = "Close" -> closed(i, call.out # "no_process")
          [] call.op = "SendRequest" -> send
          [] call.op = "Initialize" ->
                (IF stdio(i) THEN locked(i) ELSE << >>)
                \o (IF stdio(i) /\ call.out = "start_fail" THEN << >>
                    ELSE send \o (IF call.out = "bad_result" THEN << >> ELSE locked(i)))

\* The backends of BackendConfig behind a manager, nobody calling.  In
\* mu[m], w is the writer that has called Lock (it has the mutex once r is
\* empty), r are the readers that have it, rq the readers that called RLock
\* behind w and sleep until w unlocks.
InitLocks ==
    /\ InitBackends(BackendConfig) /\ InitCallers /\ NoGateway /\ ServerNewGateway
    /\ NoConfig /\ NoClients
    /\ gstack = [g \in Goroutines |-> << >>]
    /\ mu = [m \in 0..Len(BackendConfig) |-> [w |-> NIL, r |-> {}, rq |-> {}]]

\* Goroutine g begins a call: g1 calls the manager, g2 the backends, g3
\* makes the calls that only read.  out is what the call meets, as far as it decides which locks
\* the call takes; ord is the order in which the manager's map is iterated.
LockCall(g) ==
    /\ gstack[g] = << >>
    /\ \E call \in
            {[op |-> o, i |-> 0, out |-> "ok", ord |-> ord] :
                o \in CASE g = "g1" -> {"GetAllBackends", "GetHealthyBackends",
                                        "BackendManager.Close"}
                        [] g = "g2" -> {}
                        [] OTHER -> {"GetAllBackends", "GetHealthyBackends"},
                ord \in Orders(DOMAIN cfg)}
            \cup {[op |-> o, i |-> i, out |-> out, ord |-> << >>] :
                o \in CASE g = "g1" -> {}
                        [] g = "g2" -> {"Initialize", "SendRequest", "IsHealthy", "Close"}
                        [] OTHER -> {"IsHealthy"},
                i \in DOMAIN cfg,
                out \in {"ok", "start_fail", "write_fail", "rpc_error", "bad_result",
                         "no_process"}} :
            gstack' = [gstack EXCEPT ![g] = LockScript(call)]
    /\ UNCHANGED <<bvars, hvars, cvars, gvars, dvars, svars, mvars, kvars, rvars, mu>>

\* sync.RWMutex.Lock and RLock.  Lock first excludes the other writers and
\* the readers still to come, then waits until the readers that have the
\* mutex are gone.  RLock takes the mutex unless a writer has called Lock;
\* then it sleeps until that writer's Unlock hands the mutex to it.
Acquire(g) ==
    /\ gstack[g] # << >>
    /\ LET ins == Head(gstack[g])
           x == mu[ins.m]
       IN  \/ /\ ins.do = "Lock" /\ x.w = NIL
              /\ mu' = [mu EXCEPT ![ins.m].w = g]
              /\ UNCHANGED gstack
           \/ /\ ins.do = "Lock" /\ x.w = g /\ x.r = {}
              /\ gstack' = [gstack EXCEPT ![g] = Tail(@)]
              /\ UNCHANGED mu
           \/ /\ ins.do = "RLock" /\ g \notin x.r \cup x.rq
              /\ IF x.w = NIL
                 THEN /\ mu' = [mu EXCEPT ![ins.m].r = @ \cup {g}]
                      /\ gstack' = [gstack EXCEPT ![g] = Tail(@)]
                 ELSE /\ mu' = [mu EXCEPT ![ins.m].rq = @ \cup {g}]
                      /\ UNCHANGED gstack
           \/ /\ ins.do = "RLock" /\ g \in x.r
              /\ gstack' = [gstack EXCEPT ![g] = Tail(@)]
              /\ UNCHANGED mu
    /\ UNCHANGED <<bvars, hvars, cvars, gvars, dvars, svars, mvars, kvars, rvars>>

\* sync.RWMutex.Unlock and RUnlock, and the end of cmd.Wait on a killed
\* child.  Unlock hands the mutex to the readers that sleep on it.
Release(g) ==
    /\ gstack[g] # << >>
    /\ LET ins == Head(gstack[g])
       IN  /\ ins.do \in {"Unlock", "RUnlock", "Wait"}
           /\ mu' = CASE ins.do = "Unlock" ->
                            [mu EXCEPT ![ins.m] = [w |-> NIL, r |-> @.rq, rq |-> {}]]
                      [] ins.do = "RUnlock" -> [mu EXCEPT ![ins.m].r = @ \ {g}]
                      [] OTHER -> mu
    /\ gstack' = [gstack EXCEPT ![g] = Tail(@)]
    /\ UNCHANGED <<bvars, hvars, cvars, gvars, dvars, svars, mvars, kvars, rvars>>

\* The remote answers the request goroutine g waits on, or the wait ends in
\* an error.
RemoteAnswers(g) ==
    /\ gstack[g] # << >>
    /\ Head(gstack[g]).do = "Remote"
    /\ gstack' = [gstack EXCEPT ![g] = Tail(@)]
    /\ UNCHANGED <<bvars, hvars, cvars, gvars, dvars, svars, mvars, kvars, rvars, mu>>

NextLocks ==
    \E g \in Goroutines :
        \/ LockCall(g)
        \/ Acquire(g)
        \/ Release(g)
        \/ RemoteAnswers(g)

\* A goroutine that can take or release a lock does so: the runtime wakes
\* the sleepers of a mutex, and a writer that keeps finding the mutex taken
\* by other writers is handed it (sync.Mutex starvation mode).  Nothing
\* obliges a goroutine to call, or the remote to answer.
SpecLocks ==
    /\ InitLocks /\ [][NextLocks]_vars
    /\ \A g \in Goroutines : SF_vars(Acquire(g)) /\ WF_vars(Release(g))

C38_WaitsFor(g, m) ==
    /\ gstack[g] # << >>
    /\ Head(gstack[g]).do \in {"Lock", "RLock"}
    /\ Head(gstack[g]).m = m

C38_Holds(g, m) == g \in mu[m].r \/ (mu[m].w = g /\ mu[m].r = {} /\ ~C38_WaitsFor(g, m))

\* C38: whatever calls of the manager and of the backends run side by side,
\* no call asks for the manager's mutex while it has a backend's, none waits
\* for the remote with a mutex in its hands, and a call that has come to a
\* Lock or RLock of a mutex gets that mutex in the end, even when the remote
\* never answers.
C38_NoDeadlock ==
    /\ [](\A g \in Goroutines : \A m \in 0..Len(BackendConfig) :
            /\ (C38_WaitsFor(g, 0) /\ m # 0) => ~C38_Holds(g, m)
            /\ (gstack[g] # << >> /\ Head(gstack[g]).do = "Remote") => ~C38_Holds(g, m))
    /\ \A g \in Goroutines : \A m \in 0..Len(BackendConfig) :
            C38_WaitsFor(g, m) ~> C38_Holds(g, m)

\* The manager's Close has the manager's mutex and waits for the mutex of
\* the stdio backend, which another goroutine's Close holds; a reader sleeps
\* on the manager's mutex.
C38_Witness ==
    \E g \in Goroutines, h \in Goroutines, k \in Goroutines :
        /\ mu[0].w = g /\ mu[0].r = {} /\ k \in mu[0].rq
        /\ C38_WaitsFor(g, 2) /\ mu[2].w = h /\ h # g
        /\ Head(gstack[h]).do = "Wait"

\* ---------------------------------------------------------------------
\* Package server: the MCPServer with its configured gateways and the
\* RemoteMCPClient of each (client k is s.clients[gateways[k].name]).

MaxWire == 4

\* The prefixes are tried in the order of the configuration; the first one
\* that the tool name starts with, and is longer than, decides.
FindGatewayForTool(toolName) ==
    LET matches(k) ==
            LET p == gateways[k].prefix
            IN  Len(toolName) > Len(p) /\ SubSeq(toolName, 1, Len(p)) = p
        hits == {k \in DOMAIN gateways : matches(k)}
    IN  IF hits = {}
        THEN [client |-> 0, name |-> "", err |-> "no gateway found for tool"]
        ELSE LET k == CHOOSE h \in hits : \A j \in hits : h <= j
             IN  [client |-> k,
                  name |-> SubSeq(toolName, Len(gateways[k].prefix) + 1, Len(toolName)),
                  err |-> NIL]

\* NewMCPServer has created a client for each gateway of a configuration
\* LoadConfig accepts (names and prefixes not empty) and is about to fetch
\* the tools of the first one; no request is served before it is done.
InitRemote ==
    /\ InitBackends(<< >>) /\ InitCallers /\ NoGateway /\ ServerNewGateway
    /\ NoConfig /\ NoLocks
    /\ gateways \in
        {<< [name |-> "gw1", prefix |-> p] >> : p \in {"a_", "a_b_"}}
        \cup {g \in {<< [name |-> "gw1", prefix |-> p], [name |-> "gw2", prefix |-> q] >> :
                        p \in {"a_", "a_b_", "c_"}, q \in {"a_", "a_b_"}} :
                    g[1].prefix # g[2].prefix}
    /\ lookup = [tool |-> NIL, client |-> 0, name |-> NIL, err |-> NIL]
    /\ session = [k \in DOMAIN gateways |-> FALSE]
    /\ rmu = [k \in DOMAIN gateways |-> NIL]
    /\ rpc = [c \in Callers |-> IF c = "c1" THEN "lock" ELSE "idle"]
    /\ rop = [c \in Callers |-> IF c = "c1" THEN [op |-> "NewMCPServer", k |-> 1]
                                ELSE [op |-> "none", k |-> 0]]
    /\ rres = [c \in Callers |-> [op |-> "none", k |-> 0, err |-> NIL]]
    /\ wire = << >>

\* GatewayHTTPHandler.handleToolsList: GetAllGatewayTools lists the tools of
\* each gateway in turn, as registerGatewayToolsFromConfig does in NewMCPServer.
handleToolsList(c) ==
    /\ rpc[c] = "idle"
    /\ \A d \in Callers : rop[d].op # "NewMCPServer"
    /\ Len(wire) < MaxWire
    /\ rop' = [rop EXCEPT ![c] = [op |-> "GetAllGatewayTools", k |-> 1]]
    /\ rpc' = [rpc EXCEPT ![c] = "lock"]
    /\ UNCHANGED <<bvars, hvars, cvars, gvars, dvars, svars, mvars, kvars, gstack, mu>>
    /\ UNCHANGED <<gateways, lookup, session, rmu, rres, wire>>

\* GatewayHTTPHandler.handleToolsCall: a name FindGatewayForTool has no
\* gateway for goes to the base handler, another one to CallTool of the
\* client found, with the name found.
handleServerToolsCall(c, toolName) ==
    /\ rpc[c] = "idle"
    /\ \A d \in Callers : rop[d].op # "NewMCPServer"
    /\ Len(wire) < MaxWire
    /\ LET r == FindGatewayForTool(toolName)
       IN  /\ lookup' = [tool |-> toolName, client |-> r.client, name |-> r.name, err |-> r.err]
           /\ IF r.err # NIL
              THEN /\ rres' = [rres EXCEPT ![c] = [op |-> "baseHandler", k |-> 0, err |-> NIL]]
                   /\ UNCHANGED <<rop, rpc>>
              ELSE /\ rop' = [rop EXCEPT ![c] = [op |-> "CallTool", k |-> r.client]]
                   /\ rpc' = [rpc EXCEPT ![c] = "lock"]
                   /\ UNCHANGED rres
    /\ UNCHANGED <<bvars, hvars, cvars, gvars, dvars, svars, mvars, kvars, gstack, mu>>
    /\ UNCHANGED <<gateways, session, rmu, wire>>

\* An Initialize that sends initialize whether or not the session is
\* initialized.
ClientInitialize_NoCheck(c) ==
    /\ rpc[c] = "lock"
    /\ LET k == rop[c].k
       IN  /\ rmu[k] = NIL
           /\ rmu' = [rmu EXCEPT ![k] = c]
           /\ wire' = Append(wire, [to |-> k, method |-> "initialize"])
           /\ rpc' = [rpc EXCEPT ![c] = "init"]
    /\ UNCHANGED <<bvars, hvars, cvars, gvars, dvars, svars, mvars, kvars, gstack, mu>>
    /\ UNCHANGED <<gateways, lookup, session, rop, rres>>

\* RemoteMCPClient.Initialize, called first by ListTools and CallTool, up to
\* its request: it takes the client's mutex, returns at once when the
\* session is initialized, and otherwise sends initialize and keeps the
\* mutex while it waits for the answer.
ClientInitialize(c) ==
    /\ rpc[c] = "lock"
    /\ LET k == rop[c].k
       IN  /\ rmu[k] = NIL
           /\ IF session[k]
              THEN /\ rpc' = [rpc EXCEPT ![c] = "tools"]
                   /\ UNCHANGED <<rmu, wire>>
              ELSE /\ rmu' = [rmu EXCEPT ![k] = c]
                   /\ wire' = Append(wire, [to |-> k, method |-> "initialize"])
                   /\ rpc' = [rpc EXCEPT ![c] = "init"]
    /\ UNCHANGED <<bvars, hvars, cvars, gvars, dvars, svars, mvars, kvars, gstack, mu>>
    /\ UNCHANGED <<gateways, lookup, session, rop, rres>>

\* RemoteMCPClient.Initialize from the answer on: makeRequest returns an
\* error ("fail"), or a response whose result does not parse
\* ("bad_result"), or a result, and only then the session is initialized.
\* On an error ListTools and CallTool return it; the loop over the gateways
\* goes on with the next gateway.
ClientInitializeReturn(c, out) ==
    /\ rpc[c] = "init"
    /\ LET k == rop[c].k
           loop == rop[c].op # "CallTool" /\ k < Len(gateways)
       IN  /\ rmu' = [rmu EXCEPT ![k] = NIL]
           /\ IF out = "ok"
              THEN /\ session' = [session EXCEPT ![k] = TRUE]
                   /\ rpc' = [rpc EXCEPT ![c] = "tools"]
                   /\ UNCHANGED <<rop, rres>>
              ELSE /\ rres' = [rres EXCEPT ![c] =
                                [op |-> rop[c].op, k |-> k,
                                 err |-> IF out = "fail" THEN "failed to initialize"
                                         ELSE "failed to parse initialize response"]]
                   /\ rpc' = [rpc EXCEPT ![c] = IF loop THEN "lock" ELSE "idle"]
                   /\ rop' = [rop EXCEPT ![c] = IF loop THEN [@ EXCEPT !.k = k + 1]
                                                ELSE [op |-> "none", k |-> 0]]
                   /\ UNCHANGED session
    /\ UNCHANGED <<bvars, hvars, cvars, gvars, dvars, svars, mvars, kvars, gstack, mu>>
    /\ UNCHANGED <<gateways, lookup, wire>>

\* The rest of ListTools and CallTool: the tools/list or tools/call request
\* and what the call returns.
ToolsRequest(c, out) ==
    /\ rpc[c] = "tools"
    /\ LET k == rop[c].k
           loop == rop[c].op # "CallTool" /\ k < Len(gateways)
       IN  /\ wire' = Append(wire, [to |-> k,
                    method |-> IF rop[c].op = "CallTool" THEN "tools/call" ELSE "tools/list"])
           /\ rres' = [rres EXCEPT ![c] =
                        [op |-> rop[c].op, k |-> k,
                         err |-> IF out = "ok" THEN NIL
                                 ELSE IF rop[c].op = "CallTool" THEN "failed to call tool"
                                 ELSE "failed to list tools"]]
           /\ rpc' = [rpc EXCEPT ![c] = IF loop THEN "lock" ELSE "idle"]
           /\ rop' = [rop EXCEPT ![c] = IF loop THEN [@ EXCEPT !.k = k + 1]
                                        ELSE [op |-> "none", k |-> 0]]
    /\ UNCHANGED <<bvars, hvars, cvars, gvars, dvars, svars, mvars, kvars, gstack, mu>>
    /\ UNCHANGED <<gateways, lookup, session, rmu>>

NextRemote ==
    \E c \in Callers :
        \/ handleToolsList(c)
        \/ \E toolName \in {"a_b_x", "c_x", "a_"} :
                handleServerToolsCall(c, toolName)
        \/ ClientInitialize(c)
        \/ \E out \in {"ok", "fail", "bad_result"} : ClientInitializeReturn(c, out)
        \/ \E out \in {"ok", "fail"} : ToolsRequest(c, out)

SpecRemote == InitRemote /\ [][NextRemote]_vars

\* C39: a tool name made of the prefix of a configured gateway and a
\* non-empty remote name is found at that gateway's client with that remote
\* name, whatever the configured prefixes are; a name that starts with no
\* configured prefix is found nowhere.
C39_PrefixRoundTrip ==
    /\ \A k \in DOMAIN gateways : \A n \in {"x", "b_x"} :
        lookup.tool = gateways[k].prefix \o n =>
            (lookup.err = NIL /\ lookup.client = k /\ lookup.name = n)
    /\ (/\ lookup.tool # NIL
        /\ \A k \in DOMAIN gateways :
            \/ Len(lookup.tool) < Len(gateways[k].prefix)
            \/ SubSeq(lookup.tool, 1, Len(gateways[k].prefix)) # gateways[k].prefix)
       => lookup.err # NIL

\* C40: a client's tools/list and tools/call requests are sent only while
\* its session is initialized, so after an initialize; once the session is
\* initialized it stays so and the client sends no other initialize, however
\* the calls of two callers interleave; an Initialize that fails leaves the
\* session uninitialized and ends the pending ListTools or CallTool with an
\* error and no tools request; a call that finds the session uninitialized
\* sends initialize.
C40_InitializeOnce ==
    /\ [](\A n \in DOMAIN wire :
            wire[n].method # "initialize" =>
                \E m \in 1..(n - 1) : wire[m] = [to |-> wire[n].to, method |-> "initialize"])
    /\ [][/\ (wire' # wire /\ wire'[Len(wire')].method # "initialize") =>
                session[wire'[Len(wire')].to]
          /\ \A k \in DOMAIN session :
                session[k] =>
                    /\ session'[k]
                    /\ wire' # wire => wire'[Len(wire')] # [to |-> k, method |-> "initialize"]
          /\ \A c \in Callers :
                /\ (rpc[c] = "init" /\ rpc'[c] \notin {"init", "tools"}) =>
                        /\ ~session'[rop[c].k]
                        /\ wire' = wire
                        /\ rres'[c].k = rop[c].k /\ rres'[c].err # NIL
                /\ (rpc[c] = "lock" /\ rpc'[c] # "lock" /\ ~session[rop[c].k]) =>
                        wire' = Append(wire, [to |-> rop[c].k, method |-> "initialize"])]_vars

\* The initialize NewMCPServer sent to the first gateway failed; of two
\* requests served at once, the CallTool of one has sent initialize again
\* with success, and the ListTools of the other has gone through Initialize
\* without sending; both are about to send their tools requests.
C40_Witness ==
    /\ wire = << [to |-> 1, method |-> "initialize"], [to |-> 1, method |-> "initialize"] >>
    /\ session[1]
    /\ \E c \in Callers, d \in Callers :
        /\ rop[c] = [op |-> "CallTool", k |-> 1] /\ rpc[c] = "tools"
        /\ rop[d] = [op |-> "GetAllGatewayTools", k |-> 1] /\ rpc[d] = "tools"

====
